---- MODULE Spec2Model ----
(***************************************************************************)
(* Billable-event ledger of the Crew Finance Portal: idempotency keys,     *)
(* the event status machine, invoice links and payment application.        *)
(* Every async service method is split at the awaits that separate two     *)
(* accesses to the in-memory store of JsonFileStorage; Spec interleaves    *)
(* the callers at those points, SpecSeq runs one call at a time.           *)
(* Money is kept in integer minor units.                                   *)
(***************************************************************************)
EXTENDS Integers, Sequences, FiniteSets, TLC

\* ------------------------------------------------------------------ bounds
NumProcs == 2
MaxEvents == 2
MaxHist == 3
MaxPayments == 2
MaxLinkHist == 2
MaxAudit == 5
MaxBatch == 2
\* the budget of the interleaved specification
MaxRaceEvents == 1
MaxRaceAudit == 4
MaxRaceLinkHist == 2
\* the invoice links on file when the aging queries are asked
MaxAgedLinks == 2
\* the policy administration: policies on file, edits of one policy
MaxPolicies == 2
MaxVersion == 3
MaxPolicyAudit == 4
MaxPolicyEvents == 1
\* the hold route: calls that leave an audit entry
MaxHoldAudit == 3

Procs == 1..NumProcs
Users == {"u1"}

\* ------------------------------------------------------- small sequence kit
RECURSIVE SelectChars(_, _)
SelectChars(s, keep) ==
  IF s = <<>> THEN <<>>
  ELSE IF Head(s) \in keep THEN <<Head(s)>> \o SelectChars(Tail(s), keep)
       ELSE SelectChars(Tail(s), keep)

RECURSIVE MapChars(_, _)
MapChars(s, f) ==
  IF s = <<>> THEN <<>> ELSE <<f[Head(s)]>> \o MapChars(Tail(s), f)

SeqRange(s) == {s[i] : i \in 1..Len(s)}

\* Array.prototype.find / findIndex: the first of the indices whose element
\* passes the test, 0 when there is none
FirstIdx(hits) ==
  IF hits = {} THEN 0 ELSE CHOOSE i \in hits : \A j \in hits : i <= j

\* ------------------------------------------------------ idempotency key codec
Lower == {"a", "c", "p", "o"}
UpperLetters == {"A", "C", "P", "O", "T", "H", "E", "R", "F", "U", "N", "D"}
Digits == {"0", "1", "2", "3", "5"}
Alphabet == Lower \cup UpperLetters \cup Digits \cup {"-", "_", "#"}

\* String.prototype.toUpperCase on the alphabet above
toUpperCase ==
  [c \in Alphabet |->
     IF c = "a" THEN "A" ELSE IF c = "c" THEN "C" ELSE IF c = "p" THEN "P"
     ELSE IF c = "o" THEN "O" ELSE c]

\* characters kept by  .replace(/[^A-Za-z0-9_-]/g, '')
ControlNumberChars == Lower \cup UpperLetters \cup Digits \cup {"_", "-"}

\* The trigger dates the callers send, and what
\* format(new Date(triggerDate), 'yyyyMMdd') makes of them; a string that is
\* not a date gives an Invalid Date, on which format throws a RangeError.
ValidDates ==
  [d \in {"2023-12-15"} |-> <<"2", "0", "2", "3", "1", "2", "1", "5">>]
TriggerDates == {"2023-12-15", "not-a-date"}
DateParses(d) == d \in DOMAIN ValidDates

\* the FeeType enum members used, spelled out as characters
FeeTypeChars ==
  [f \in {"OTHER", "REFUND"} |->
     IF f = "OTHER" THEN <<"O", "T", "H", "E", "R">>
     ELSE <<"R", "E", "F", "U", "N", "D">>]
FeeTypes == DOMAIN FeeTypeChars
\* IdempotencyService.generateKey takes feeType as any string: the enum
\* members, one in another letter case, and the empty string
FeeTypeStrings ==
  FeeTypeChars @@ [f \in {"oTHER", ""} |->
                     IF f = "" THEN <<>> ELSE <<"o", "T", "H", "E", "R">>]

generateIdempotencyKey(clientCode, controlNumber, triggerDate, feeType) ==
  LET dateStr == ValidDates[triggerDate]
      sanitizedControlNumber ==
        MapChars(SelectChars(controlNumber, ControlNumberChars), toUpperCase)
  IN  MapChars(clientCode, toUpperCase) \o <<"-">> \o sanitizedControlNumber
        \o <<"-">> \o dateStr \o <<"-">> \o FeeTypeStrings[feeType]

\* ------------------------------------------------------------ fee calculation
\* A FeeRule; optional fields carry a has-flag.  Amounts are minor units,
\* percentages whole numbers.
NoRule == [feeType |-> "NONE", calculationType |-> "FIXED", value |-> 0,
           hasMin |-> FALSE, minimumFee |-> 0,
           hasMax |-> FALSE, maximumFee |-> 0,
           hasTiers |-> FALSE, tiers |-> <<>>]
NoTier == [fromAmount |-> 0, hasTo |-> FALSE, toAmount |-> 0, value |-> 0,
           calculationType |-> "FIXED"]

\* Math.round(amount * 100) / 100 on an amount given as num/den minor units:
\* nearest minor unit, halves toward +infinity
MathRound(num, den) == (2 * num + den) \div (2 * den)

Max(a, b) == IF a >= b THEN a ELSE b
Min(a, b) == IF a <= b THEN a ELSE b

\* a calculateFee that applies maximumFee first and minimumFee second
calculateFee_MaxFirst(policy, feeType, baseAmount) ==
  LET i == FirstIdx({k \in 1..Len(policy.feeRules) : policy.feeRules[k].feeType = feeType})
      feeRule == IF i = 0 THEN NoRule ELSE policy.feeRules[i]
      base == IF baseAmount = <<>> THEN 0 ELSE baseAmount[1]
      t == FirstIdx({k \in 1..Len(feeRule.tiers) :
                       /\ base >= feeRule.tiers[k].fromAmount
                       /\ (~feeRule.tiers[k].hasTo \/ base <= feeRule.tiers[k].toAmount)})
      tier == IF t = 0 THEN NoTier ELSE feeRule.tiers[t]
      raw == CASE feeRule.calculationType = "FIXED" -> feeRule.value * 100
               [] feeRule.calculationType = "PERCENTAGE" -> base * feeRule.value
               [] OTHER -> IF tier.calculationType = "FIXED"
                           THEN tier.value * 100 ELSE base * tier.value
      hi == IF feeRule.hasMax THEN Min(raw, feeRule.maximumFee * 100) ELSE raw
      lo == IF feeRule.hasMin THEN Max(hi, feeRule.minimumFee * 100) ELSE hi
  IN  IF i = 0 THEN <<>>
      ELSE IF feeRule.calculationType = "PERCENTAGE" /\ baseAmount = <<>> THEN <<>>
      ELSE IF feeRule.calculationType = "TIERED"
              /\ (~feeRule.hasTiers \/ baseAmount = <<>> \/ t = 0) THEN <<>>
      ELSE <<MathRound(lo, 100)>>

\* PolicyService.calculateFee; baseAmount is <<>> when undefined, the result
\* is <<>> for null and <<amount>> otherwise.  The amount is carried in
\* hundredths of a minor unit until the final rounding.
calculateFee(policy, feeType, baseAmount) ==
  LET i == FirstIdx({k \in 1..Len(policy.feeRules) : policy.feeRules[k].feeType = feeType})
      feeRule == IF i = 0 THEN NoRule ELSE policy.feeRules[i]
      base == IF baseAmount = <<>> THEN 0 ELSE baseAmount[1]
      t == FirstIdx({k \in 1..Len(feeRule.tiers) :
                       /\ base >= feeRule.tiers[k].fromAmount
                       /\ (~feeRule.tiers[k].hasTo \/ base <= feeRule.tiers[k].toAmount)})
      tier == IF t = 0 THEN NoTier ELSE feeRule.tiers[t]
      raw == CASE feeRule.calculationType = "FIXED" -> feeRule.value * 100
               [] feeRule.calculationType = "PERCENTAGE" -> base * feeRule.value
               [] OTHER -> IF tier.calculationType = "FIXED"
                           THEN tier.value * 100 ELSE base * tier.value
      lo == IF feeRule.hasMin THEN Max(raw, feeRule.minimumFee * 100) ELSE raw
      hi == IF feeRule.hasMax THEN Min(lo, feeRule.maximumFee * 100) ELSE lo
  IN  IF i = 0 THEN <<>>
      ELSE IF feeRule.calculationType = "PERCENTAGE" /\ baseAmount = <<>> THEN <<>>
      ELSE IF feeRule.calculationType = "TIERED"
              /\ (~feeRule.hasTiers \/ baseAmount = <<>> \/ t = 0) THEN <<>>
      ELSE <<MathRound(hi, 100)>>

\* ------------------------------------------------------------------- state
VARIABLES
  clientPolicies,   \* JsonFileStorage.data.clientPolicies
  billableEvents,   \* JsonFileStorage.data.billableEvents
  invoiceLinks,     \* JsonFileStorage.data.invoiceLinks
  auditLogs,        \* JsonFileStorage.data.auditLogs
  enableQbWrite,    \* config.app.enableQbWrite
  pc,               \* where each caller stands in its service method
  local,            \* the locals of the method each caller runs
  result            \* what the caller's last call returned or threw

vars == <<clientPolicies, billableEvents, invoiceLinks, auditLogs,
          enableQbWrite, pc, local, result>>
store == <<clientPolicies, billableEvents, invoiceLinks, auditLogs, enableQbWrite>>

\* The policies on file: client c1 has an active policy with a FIXED rule
\* for OTHER; no policy exists for client c9.
InitPolicies ==
  << [id |-> 1, clientId |-> "c1", clientCode |-> <<"a", "c">>, version |-> 1,
      currency |-> "USD", isActive |-> TRUE, triggerRule |-> "ON_PLACEMENT",
      feeRules |-> << [feeType |-> "OTHER", calculationType |-> "FIXED",
                       value |-> 1000,
                       hasMin |-> FALSE, minimumFee |-> 0,
                       hasMax |-> FALSE, maximumFee |-> 0,
                       hasTiers |-> FALSE, tiers |-> <<>>] >>] >>

\* The creation requests the callers send (createEvent's input).  amount and
\* salary are <<>> when not supplied.
Trigger(c, n, d, f, a) ==
  [clientId |-> c, controlNumber |-> n, triggerDate |-> d, feeType |-> f,
   amount |-> a, salary |-> <<>>, clientCode |-> <<>>]
Triggers ==
  { Trigger("c1", <<"p", "1">>, "2023-12-15", "OTHER", <<>>),
    Trigger("c1", <<"P", "#", "1">>, "2023-12-15", "OTHER", <<>>),
    Trigger("c1", <<"p", "2">>, "2023-12-15", "OTHER", <<-100>>),
    Trigger("c1", <<"p", "1">>, "2023-12-15", "REFUND", <<>>),
    Trigger("c1", <<"p", "1">>, "not-a-date", "OTHER", <<>>),
    Trigger("c9", <<"p", "1">>, "2023-12-15", "OTHER", <<>>) }
\* The rows bulkCreateFromSmartsheet is sent: placements carry no amount.
\* Two control numbers, and a row whose date does not parse.
Placements ==
  { Trigger("c1", <<"p", "1">>, "2023-12-15", "OTHER", <<>>),
    Trigger("c1", <<"p", "2">>, "2023-12-15", "OTHER", <<>>),
    Trigger("c1", <<"p", "1">>, "not-a-date", "OTHER", <<>>) }

PayAmounts == {-400, 400, 600}
Reasons == {"dispute"}
QbSyncStatuses == {"PAID"}

NoTrigger == Trigger("", <<>>, "", "", <<>>)
NoLocal ==
  [op |-> "", userId |-> "", input |-> NoTrigger, id |-> 0,
   key |-> <<>>, event |-> <<>>, link |-> <<>>, existing |-> FALSE,
   policy |-> <<>>, updates |-> <<>>,
   qbInvoice |-> FALSE, amount |-> 0, reason |-> "", newStatus |-> "",
   audit |-> <<>>,
   bulk |-> FALSE, total |-> 0, todo |-> 0,
   created |-> <<>>, duplicates |-> <<>>, errors |-> 0]

\* A call's outcome: kind "ok" or the class of the error thrown; key is the
\* idempotencyKey a DuplicateError carries; id the entity returned.  For
\* bulkCreateFromSmartsheet: the three lists it returns (errors as a count)
\* and placements.length.  amount is what a calculation returned, report
\* what a query returned.
Outcome(op, kind, id, key) ==
  [op |-> op, kind |-> kind, id |-> id, key |-> key, total |-> 0,
   amount |-> <<>>, report |-> <<>>,
   created |-> <<>>, duplicates |-> <<>>, errors |-> 0]
NoResult == Outcome("", "", 0, <<>>)

Init ==
  /\ clientPolicies = InitPolicies
  /\ billableEvents = <<>>
  /\ invoiceLinks = <<>>
  /\ auditLogs = <<>>
  /\ enableQbWrite \in BOOLEAN
  /\ pc = [p \in Procs |-> "idle"]
  /\ local = [p \in Procs |-> NoLocal]
  /\ result = [p \in Procs |-> NoResult]

\* ------------------------------------------------------------ storage reads
\* JsonFileStorage.getPolicyByClientId: <<>> for null
getPolicyByClientId(clientId) ==
  LET i == FirstIdx({k \in 1..Len(clientPolicies) :
                      clientPolicies[k].clientId = clientId /\ clientPolicies[k].isActive})
  IN  IF i = 0 THEN <<>> ELSE <<clientPolicies[i]>>

\* a key index that never finds a key
idempotencyKeyExists_Never(key) == FALSE

idempotencyKeyExists(key) ==
  \E i \in 1..Len(billableEvents) : billableEvents[i].idempotencyKey = key

getEventByIdempotencyKey(key) ==
  LET i == FirstIdx({k \in 1..Len(billableEvents) : billableEvents[k].idempotencyKey = key})
  IN  IF i = 0 THEN <<>> ELSE <<billableEvents[i]>>

getEventById(id) ==
  LET i == FirstIdx({k \in 1..Len(billableEvents) : billableEvents[k].id = id})
  IN  IF i = 0 THEN <<>> ELSE <<billableEvents[i]>>

getInvoiceLinkById(id) ==
  LET i == FirstIdx({k \in 1..Len(invoiceLinks) : invoiceLinks[k].id = id})
  IN  IF i = 0 THEN <<>> ELSE <<invoiceLinks[i]>>

getInvoiceLinkByEventId(billableEventId) ==
  LET i == FirstIdx({k \in 1..Len(invoiceLinks) :
                      invoiceLinks[k].billableEventId = billableEventId})
  IN  IF i = 0 THEN <<>> ELSE <<invoiceLinks[i]>>

\* ------------------------------------------------------------ model functions
\* An optional property is <<>> while the object does not own it, Undefined
\* when it owns it with the value undefined, and <<v>> otherwise.
Absent == <<>>
Undefined == <<"undefined">>

\* IdempotencyKeySchema: /^[A-Z0-9]+-[A-Za-z0-9_-]+-\d{8}-[A-Z_]+$/
AllIn(s, from, to, chars) == \A x \in from..to : s[x] \in chars
IdempotencyKeySchema(key) ==
  \E i, j, k \in 1..Len(key) :
     /\ i < j /\ j < k
     /\ key[i] = "-" /\ key[j] = "-" /\ key[k] = "-"
     /\ i > 1 /\ AllIn(key, 1, i - 1, UpperLetters \cup Digits)
     /\ j > i + 1 /\ AllIn(key, i + 1, j - 1, ControlNumberChars)
     /\ k = j + 9 /\ AllIn(key, j + 1, k - 1, Digits)
     /\ k < Len(key) /\ AllIn(key, k + 1, Len(key), UpperLetters \cup {"_"})

\* createBillableEvent; the uuid is the position the event will take
createBillableEvent(id, policy, input, amount, createdBy) ==
  [id |-> id,
   idempotencyKey |-> generateIdempotencyKey(policy.clientCode,
                        input.controlNumber, input.triggerDate, input.feeType),
   clientId |-> input.clientId, feeType |-> input.feeType,
   amount |-> amount, currency |-> policy.currency,
   status |-> "PENDING",
   statusHistory |-> << [status |-> "PENDING", userId |-> createdBy,
                         reason |-> "Created from Smartsheet data"] >>,
   policyId |-> policy.id, policyVersion |-> policy.version,
   approvedAt |-> <<>>, approvedBy |-> <<>>,
   holdReason |-> <<>>, holdBy |-> <<>>]

\* a status update that leaves the history as it is
updateEventStatus_NoHistory(event, newStatus, userId, reason) ==
  [event EXCEPT !.status = newStatus]

\* a status update that overwrites the last history entry
updateEventStatus_Rewrite(event, newStatus, userId, reason) ==
  [event EXCEPT
     !.status = newStatus,
     !.statusHistory = [@ EXCEPT ![Len(@)] = [status |-> newStatus,
                                              userId |-> userId,
                                              reason |-> reason]]]

\* a status update that files an invoiced event as overdue
updateEventStatus_Overdue(event, newStatus, userId, reason) ==
  LET stored == IF newStatus = "INVOICED" THEN "OVERDUE" ELSE newStatus
  IN  [event EXCEPT
         !.status = stored,
         !.statusHistory = Append(@, [status |-> stored, userId |-> userId,
                                      reason |-> reason])]

updateEventStatus(event, newStatus, userId, reason) ==
  [event EXCEPT
     !.status = newStatus,
     !.statusHistory = Append(@, [status |-> newStatus, userId |-> userId,
                                  reason |-> reason])]

\* { ...current, ...updates }: a property the updates object does not own
\* keeps the stored value
Spread(current, updates) ==
  [updates EXCEPT
     !.approvedAt = IF @ = <<>> THEN current.approvedAt ELSE @,
     !.approvedBy = IF @ = <<>> THEN current.approvedBy ELSE @,
     !.holdReason = IF @ = <<>> THEN current.holdReason ELSE @,
     !.holdBy = IF @ = <<>> THEN current.holdBy ELSE @]

\* an updateEvent that writes to the first slot whatever the id
updateEvent_FirstSlot(id, updates) ==
  [billableEvents EXCEPT ![1] = Spread(@, updates)]

\* JsonFileStorage.updateEvent on the array; the caller has checked that the
\* id is present
updateEvent(id, updates) ==
  LET index == FirstIdx({k \in 1..Len(billableEvents) : billableEvents[k].id = id})
  IN  [billableEvents EXCEPT ![index] = Spread(@, updates)]

createInvoiceLink(id, event, createdBy) ==
  [id |-> id, billableEventId |-> event.id,
   idempotencyKey |-> event.idempotencyKey,
   amount |-> event.amount, currency |-> event.currency,
   qbStatus |-> "PENDING",
   statusHistory |-> << [status |-> "PENDING", source |-> "PORTAL"] >>,
   totalPaid |-> 0, balance |-> event.amount, payments |-> <<>>,
   paidInFullDate |-> Absent]

\* a recordPayment that takes a link for paid only once it is overpaid
recordPayment_Overpaid(invoiceLink, payment) ==
  LET newTotalPaid == invoiceLink.totalPaid + payment
      newBalance == invoiceLink.amount - newTotalPaid
      newStatus == IF newBalance < 0 THEN "PAID"
                   ELSE IF newTotalPaid > 0 THEN "PARTIAL"
                   ELSE invoiceLink.qbStatus
  IN  [invoiceLink EXCEPT
         !.totalPaid = newTotalPaid,
         !.balance = Max(0, newBalance),
         !.payments = Append(@, payment),
         !.paidInFullDate = IF newBalance < 0 THEN <<"paymentDate">>
                            ELSE IF @ = Absent THEN Undefined ELSE @,
         !.qbStatus = newStatus,
         !.statusHistory = Append(@, [status |-> newStatus, source |-> "QB_SYNC"])]

\* a recordPayment that also lowers the invoiced amount to what is still owed
recordPayment_Reprice(invoiceLink, payment) ==
  LET newTotalPaid == invoiceLink.totalPaid + payment
      newBalance == invoiceLink.amount - newTotalPaid
      newStatus == IF newBalance <= 0 THEN "PAID"
                   ELSE IF newTotalPaid > 0 THEN "PARTIAL"
                   ELSE invoiceLink.qbStatus
  IN  [invoiceLink EXCEPT
         !.amount = Max(0, newBalance),
         !.totalPaid = newTotalPaid,
         !.balance = Max(0, newBalance),
         !.payments = Append(@, payment),
         !.paidInFullDate = IF newBalance <= 0 THEN <<"paymentDate">>
                            ELSE IF @ = Absent THEN Undefined ELSE @,
         !.qbStatus = newStatus,
         !.statusHistory = Append(@, [status |-> newStatus, source |-> "QB_SYNC"])]

\* a recordPayment that keeps the latest payment only
recordPayment_Replace(invoiceLink, payment) ==
  LET newTotalPaid == invoiceLink.totalPaid + payment
      newBalance == invoiceLink.amount - newTotalPaid
      newStatus == IF newBalance <= 0 THEN "PAID"
                   ELSE IF newTotalPaid > 0 THEN "PARTIAL"
                   ELSE invoiceLink.qbStatus
  IN  [invoiceLink EXCEPT
         !.totalPaid = newTotalPaid,
         !.balance = Max(0, newBalance),
         !.payments = <<payment>>,
         !.paidInFullDate = IF newBalance <= 0 THEN <<"paymentDate">>
                            ELSE IF @ = Absent THEN Undefined ELSE @,
         !.qbStatus = newStatus,
         !.statusHistory = Append(@, [status |-> newStatus, source |-> "QB_SYNC"])]

recordPayment(invoiceLink, payment) ==
  LET newTotalPaid == invoiceLink.totalPaid + payment
      newBalance == invoiceLink.amount - newTotalPaid
      newStatus == IF newBalance <= 0 THEN "PAID"
                   ELSE IF newTotalPaid > 0 THEN "PARTIAL"
                   ELSE invoiceLink.qbStatus
  IN  [invoiceLink EXCEPT
         !.totalPaid = newTotalPaid,
         !.balance = Max(0, newBalance),
         !.payments = Append(@, payment),
         !.paidInFullDate = IF newBalance <= 0 THEN <<"paymentDate">>
                            ELSE IF @ = Absent THEN Undefined ELSE @,
         !.qbStatus = newStatus,
         !.statusHistory = Append(@, [status |-> newStatus, source |-> "QB_SYNC"])]

\* JsonFileStorage.updateInvoiceLink, { ...current, ...updates }: the updates
\* every caller passes own all properties of a link, except paidInFullDate
\* while no payment has been recorded on the object they were spread from
updateInvoiceLink(id, updates) ==
  LET index == FirstIdx({k \in 1..Len(invoiceLinks) : invoiceLinks[k].id = id})
  IN  [invoiceLinks EXCEPT
         ![index] = [updates EXCEPT
                       !.paidInFullDate =
                          IF @ = Absent THEN invoiceLinks[index].paidInFullDate ELSE @]]

createAuditLog(action, entityType, entityId, userId) ==
  [action |-> action, entityType |-> entityType, entityId |-> entityId,
   userId |-> userId]

\* ------------------------------------------------------------ call plumbing
Idle(p) == pc[p] \in {"idle", "done"}

\* the ids the callers ask for: those of the stored entities and one that
\* is not stored
EventIds == 1..(Len(billableEvents) + 1)
LinkIds == 1..(Len(invoiceLinks) + 1)

\* the caller goes on to `label`; its previous outcome is gone once a new
\* call is under way
Goto(p, label, loc) ==
  /\ pc' = [pc EXCEPT ![p] = label]
  /\ local' = [local EXCEPT ![p] = loc]
  /\ result' = [result EXCEPT ![p] = NoResult]

\* a bulk loop that returns to its caller whatever createEvent returned or
\* threw for the placement at hand
Finish_Abort(p, loc, res) ==
  /\ pc' = [pc EXCEPT ![p] = "done"]
  /\ local' = [local EXCEPT ![p] = NoLocal]
  /\ result' = [result EXCEPT ![p] = res]

\* The method returns or throws `res`.  Inside bulkCreateFromSmartsheet the
\* outcome of createEvent is filed under created, duplicates or errors and
\* the loop goes on with the next placement (todo counts the placements
\* left; what each one holds is drawn when the loop reaches it).
Finish(p, loc, res) ==
  IF loc.bulk
  THEN LET created == IF res.kind = "ok" THEN Append(loc.created, res.id)
                      ELSE loc.created
           duplicates ==
             IF res.kind = "DuplicateError"
             THEN Append(loc.duplicates,
                         [controlNumber |-> loc.input.controlNumber,
                          idempotencyKey |-> res.key])
             ELSE loc.duplicates
           errors == IF res.kind \in {"ok", "DuplicateError"} THEN loc.errors
                     ELSE loc.errors + 1
       IN  IF loc.todo = 0
           THEN /\ pc' = [pc EXCEPT ![p] = "done"]
                /\ local' = [local EXCEPT ![p] = NoLocal]
                /\ result' = [result EXCEPT ![p] =
                     [Outcome("bulkCreateFromSmartsheet", "ok", 0, <<>>) EXCEPT
                        !.total = loc.total,
                        !.created = created, !.duplicates = duplicates,
                        !.errors = errors]]
           ELSE Goto(p, "ce_start",
                     [NoLocal EXCEPT
                        !.op = loc.op, !.userId = loc.userId, !.bulk = TRUE,
                        !.total = loc.total, !.todo = loc.todo - 1,
                        !.created = created, !.duplicates = duplicates,
                        !.errors = errors])
  ELSE /\ pc' = [pc EXCEPT ![p] = "done"]
       /\ local' = [local EXCEPT ![p] = NoLocal]
       /\ result' = [result EXCEPT ![p] = res]

Throw(p, loc, kind) == Finish(p, loc, Outcome(loc.op, kind, loc.id, <<>>))

\* ------------------------------------------------- BillableEventService
\* createEvent up to the call of storage.saveEvent: policy lookup,
\* validateBeforeCreate, fee calculation, createBillableEvent.  A request
\* that would store an event is taken only while the store has room.
CeValidate(p, loc) ==
  LET input == loc.input
      found == getPolicyByClientId(input.clientId)
      policy == found[1]
      key == generateIdempotencyKey(policy.clientCode, input.controlNumber,
                                    input.triggerDate, input.feeType)
      feeCalc == calculateFee(policy, input.feeType, input.salary)
      amount == IF input.amount # <<>> THEN input.amount ELSE feeCalc
  IN  /\ UNCHANGED store
      /\ IF found = <<>> THEN Throw(p, loc, "ValidationError")
         ELSE IF ~DateParses(input.triggerDate) THEN Throw(p, loc, "RangeError")
         ELSE IF idempotencyKeyExists(key)
              THEN Finish(p, loc, Outcome(loc.op, "DuplicateError", 0, key))
         ELSE IF amount = <<>> THEN Throw(p, loc, "ValidationError")
         ELSE IF ~IdempotencyKeySchema(key) THEN Throw(p, loc, "ZodError")
         ELSE /\ Len(billableEvents) < MaxEvents
              /\ Len(auditLogs) < MaxAudit
              /\ Goto(p, "ce_save",
                   [loc EXCEPT !.key = key,
                      !.event = <<createBillableEvent(0, policy, input,
                                                      amount[1], loc.userId)>>])

CreateEvent(p) ==
  /\ Idle(p)
  /\ \E input \in Triggers, u \in Users :
       CeValidate(p, [NoLocal EXCEPT !.op = "createEvent", !.userId = u,
                                     !.input = input])

\* bulkCreateFromSmartsheet with n placements: an empty batch returns three
\* empty lists, any other enters the loop with its first placement
BulkCreateFromSmartsheet(p) ==
  /\ Idle(p)
  /\ \E n \in 0..MaxBatch, placement \in Placements, u \in Users :
       IF n = 0
       THEN /\ UNCHANGED store
            /\ pc' = [pc EXCEPT ![p] = "done"]
            /\ local' = [local EXCEPT ![p] = NoLocal]
            /\ result' = [result EXCEPT ![p] =
                 Outcome("bulkCreateFromSmartsheet", "ok", 0, <<>>)]
       ELSE CeValidate(p, [NoLocal EXCEPT !.op = "createEvent", !.userId = u,
                             !.bulk = TRUE, !.input = placement,
                             !.total = n, !.todo = n - 1])

\* the next placement of the bulk loop
CeStart(p) ==
  /\ pc[p] = "ce_start"
  /\ \E placement \in Placements :
       CeValidate(p, [local[p] EXCEPT !.input = placement])

\* JsonFileStorage.saveEvent, the lookup
CeSave(p) ==
  /\ pc[p] = "ce_save"
  /\ UNCHANGED store
  /\ Goto(p, "ce_push",
          [local[p] EXCEPT
             !.existing =
                getEventByIdempotencyKey(local[p].event[1].idempotencyKey) # <<>>])

\* JsonFileStorage.saveEvent, after the lookup
CePush(p) ==
  /\ pc[p] = "ce_push"
  /\ UNCHANGED <<clientPolicies, invoiceLinks, auditLogs, enableQbWrite>>
  /\ IF local[p].existing
     THEN /\ UNCHANGED billableEvents
          /\ Throw(p, local[p], "Error")
     ELSE LET event == [local[p].event[1] EXCEPT !.id = Len(billableEvents) + 1]
          IN  /\ billableEvents' = Append(billableEvents, event)
              /\ Goto(p, "audit",
                      [local[p] EXCEPT
                         !.event = <<event>>, !.id = event.id,
                         !.audit = <<createAuditLog("CREATE", "BILLABLE_EVENT",
                                                    event.id, local[p].userId)>>])

\* AuditService.log as the last step of a service method: the entry is
\* pushed, and writing the audit file succeeds or throws
Audit(p) ==
  /\ pc[p] = "audit"
  /\ auditLogs' = Append(auditLogs, local[p].audit[1])
  /\ UNCHANGED <<clientPolicies, billableEvents, invoiceLinks, enableQbWrite>>
  /\ \E written \in BOOLEAN :
       IF written
       THEN Finish(p, local[p], Outcome(local[p].op, "ok", local[p].id, <<>>))
       ELSE Throw(p, local[p], "Error")

\* the status checks of approveEvent, holdEvent and markAsInvoiced; each is
\* preceded by a check that lets every status through
ApproveAllowed_Any(status) == TRUE

ApproveAllowed(status) == status = "PENDING" \/ status = "HOLD"

HoldAllowed_Any(status) == TRUE

HoldAllowed(status) == status = "PENDING" \/ status = "APPROVED"

MarkAsInvoicedAllowed_Any(status) == TRUE

MarkAsInvoicedAllowed(status) == status = "APPROVED"

ApproveEvent(p) ==
  /\ Idle(p)
  /\ Len(auditLogs) < MaxAudit
  /\ UNCHANGED store
  /\ \E id \in EventIds, u \in Users :
       LET event == getEventById(id)
           loc == [NoLocal EXCEPT !.op = "approveEvent", !.userId = u, !.id = id]
       IN  IF event = <<>> THEN Throw(p, loc, "NotFoundError")
           ELSE IF ~ApproveAllowed(event[1].status)
                THEN Throw(p, loc, "ValidationError")
           ELSE /\ Len(event[1].statusHistory) < MaxHist
                /\ Goto(p, "ap_write", [loc EXCEPT !.event = event])

ApWrite(p) ==
  /\ pc[p] = "ap_write"
  /\ LET loc == local[p]
         updated == [updateEventStatus(loc.event[1], "APPROVED", loc.userId, "")
                       EXCEPT !.approvedAt = <<"now">>,
                              !.approvedBy = <<loc.userId>>]
     IN  /\ billableEvents' = updateEvent(loc.id, updated)
         /\ Goto(p, "audit",
                 [loc EXCEPT !.audit = <<createAuditLog("APPROVE", "BILLABLE_EVENT",
                                                        loc.id, loc.userId)>>])
  /\ UNCHANGED <<clientPolicies, invoiceLinks, auditLogs, enableQbWrite>>

\* holdEvent up to its write: event lookup and status check
HoldEventCall(p, id, u, reason) ==
  LET event == getEventById(id)
      loc == [NoLocal EXCEPT !.op = "holdEvent", !.userId = u, !.id = id,
                             !.reason = reason]
  IN  IF event = <<>> THEN Throw(p, loc, "NotFoundError")
      ELSE IF ~HoldAllowed(event[1].status)
           THEN Throw(p, loc, "ValidationError")
      ELSE /\ Len(event[1].statusHistory) < MaxHist
           /\ Goto(p, "hold_write", [loc EXCEPT !.event = event])

HoldEvent(p) ==
  /\ Idle(p)
  /\ Len(auditLogs) < MaxAudit
  /\ UNCHANGED store
  /\ \E id \in EventIds, u \in Users, reason \in Reasons :
       HoldEventCall(p, id, u, reason)

HoldWrite(p) ==
  /\ pc[p] = "hold_write"
  /\ LET loc == local[p]
         updated == [updateEventStatus(loc.event[1], "HOLD", loc.userId, loc.reason)
                       EXCEPT !.holdReason = <<loc.reason>>,
                              !.holdBy = <<loc.userId>>]
     IN  /\ billableEvents' = updateEvent(loc.id, updated)
         /\ Goto(p, "audit",
                 [loc EXCEPT !.audit = <<createAuditLog("HOLD", "BILLABLE_EVENT",
                                                        loc.id, loc.userId)>>])
  /\ UNCHANGED <<clientPolicies, invoiceLinks, auditLogs, enableQbWrite>>

\* ------------------------------------------------------- InvoiceService
\* createInvoice's own status check, preceded by one that lets every status
\* through
InvoiceAllowed_Any(status) == TRUE

InvoiceAllowed(status) == status = "APPROVED"

\* createInvoice: phase check, event lookup and status check
CreateInvoice(p) ==
  /\ Idle(p)
  /\ Len(auditLogs) < MaxAudit
  /\ UNCHANGED store
  /\ \E id \in EventIds, u \in Users :
       LET event == getEventById(id)
           loc == [NoLocal EXCEPT !.op = "createInvoice", !.userId = u, !.id = id]
       IN  IF ~enableQbWrite THEN Throw(p, loc, "PhaseRestrictionError")
           ELSE IF event = <<>> THEN Throw(p, loc, "NotFoundError")
           ELSE IF ~InvoiceAllowed(event[1].status)
                THEN Throw(p, loc, "ValidationError")
           ELSE Goto(p, "inv_check", [loc EXCEPT !.event = event])

\* What the accounting call of createInvoice can answer.  createQbInvoiceStub
\* stands in for the QuickBooks call it names as its replacement and always
\* returns an invoice; the call it stands for can also fail, and the
\* rejection then leaves createInvoice at the await of the call.
QbAnswers == {"invoice", "IntegrationError"}

\* a createInvoice that stores the link before it calls the accounting system
InvCheck_LinkFirst(p) ==
  /\ pc[p] = "inv_check"
  /\ UNCHANGED <<clientPolicies, billableEvents, auditLogs, enableQbWrite>>
  /\ IF getInvoiceLinkByEventId(local[p].id) # <<>>
     THEN UNCHANGED invoiceLinks /\ Throw(p, local[p], "ValidationError")
     ELSE /\ invoiceLinks' =
               Append(invoiceLinks,
                      createInvoiceLink(Len(invoiceLinks) + 1, local[p].event[1],
                                        local[p].userId))
          /\ \E answer \in QbAnswers :
               IF answer = "invoice"
               THEN Goto(p, "inv_mark",
                         [local[p] EXCEPT !.qbInvoice = TRUE,
                                          !.link = <<invoiceLinks'[Len(invoiceLinks')]>>])
               ELSE Throw(p, local[p], answer)

\* createInvoice: the existing-link check, then the call to the accounting
\* system
InvCheck(p) ==
  /\ pc[p] = "inv_check"
  /\ UNCHANGED store
  /\ IF getInvoiceLinkByEventId(local[p].id) # <<>>
     THEN Throw(p, local[p], "ValidationError")
     ELSE \E answer \in QbAnswers :
            IF answer = "invoice"
            THEN Goto(p, "inv_save", [local[p] EXCEPT !.qbInvoice = TRUE])
            ELSE Throw(p, local[p], answer)

\* createInvoice: createInvoiceLink and storage.saveInvoiceLink
InvSave(p) ==
  /\ pc[p] = "inv_save"
  /\ LET link == createInvoiceLink(Len(invoiceLinks) + 1, local[p].event[1],
                                   local[p].userId)
     IN  /\ invoiceLinks' = Append(invoiceLinks, link)
         /\ Goto(p, "inv_mark", [local[p] EXCEPT !.link = <<link>>])
  /\ UNCHANGED <<clientPolicies, billableEvents, auditLogs, enableQbWrite>>

\* markAsInvoiced: lookup and status check
InvMark(p) ==
  /\ pc[p] = "inv_mark"
  /\ UNCHANGED store
  /\ LET event == getEventById(local[p].id)
     IN  IF event = <<>> THEN Throw(p, local[p], "NotFoundError")
         ELSE IF ~MarkAsInvoicedAllowed(event[1].status)
              THEN Throw(p, local[p], "ValidationError")
         ELSE Goto(p, "inv_mark_write", [local[p] EXCEPT !.event = event])

\* markAsInvoiced: the write
InvMarkWrite(p) ==
  /\ pc[p] = "inv_mark_write"
  /\ LET loc == local[p]
         updated == updateEventStatus(loc.event[1], "INVOICED", loc.userId,
                                      "Invoice created in QuickBooks")
     IN  /\ billableEvents' = updateEvent(loc.id, updated)
         /\ Goto(p, "audit",
                 [loc EXCEPT
                    !.id = loc.link[1].id,
                    !.audit = <<createAuditLog("INVOICE_CREATE", "INVOICE_LINK",
                                               loc.link[1].id, loc.userId)>>])
  /\ UNCHANGED <<clientPolicies, invoiceLinks, auditLogs, enableQbWrite>>

\* recordPaymentFromQb: the link lookup
RecordPaymentFromQb(p) ==
  /\ Idle(p)
  /\ Len(auditLogs) < MaxAudit
  /\ UNCHANGED store
  /\ \E id \in LinkIds, u \in Users, amount \in PayAmounts :
       LET link == getInvoiceLinkById(id)
           loc == [NoLocal EXCEPT !.op = "recordPaymentFromQb", !.userId = u,
                                  !.id = id, !.amount = amount]
       IN  IF link = <<>> THEN Throw(p, loc, "NotFoundError")
           ELSE /\ Len(link[1].payments) < MaxPayments
                /\ Goto(p, "pay_write", [loc EXCEPT !.link = link])

\* a recordPaymentFromQb that never goes on to markAsPaid
PayWrite_NoMark(p) ==
  /\ pc[p] = "pay_write"
  /\ LET loc == local[p]
         updated == recordPayment(loc.link[1], loc.amount)
     IN  /\ invoiceLinks' = updateInvoiceLink(loc.id, updated)
         /\ Goto(p, "audit",
                 [loc EXCEPT
                    !.link = <<updated>>,
                    !.audit = <<createAuditLog("PAYMENT_RECORD", "INVOICE_LINK",
                                               loc.id, loc.userId)>>])
  /\ UNCHANGED <<clientPolicies, billableEvents, auditLogs, enableQbWrite>>

\* recordPaymentFromQb: recordPayment and storage.updateInvoiceLink
PayWrite(p) ==
  /\ pc[p] = "pay_write"
  /\ LET loc == local[p]
         updated == recordPayment(loc.link[1], loc.amount)
         loc1 == [loc EXCEPT
                    !.link = <<updated>>,
                    !.audit = <<createAuditLog("PAYMENT_RECORD", "INVOICE_LINK",
                                               loc.id, loc.userId)>>]
     IN  /\ invoiceLinks' = updateInvoiceLink(loc.id, updated)
         /\ IF updated.qbStatus = "PAID"
            THEN Goto(p, "pay_mark", loc1)
            ELSE Goto(p, "audit", loc1)
  /\ UNCHANGED <<clientPolicies, billableEvents, auditLogs, enableQbWrite>>

\* markAsPaid: the lookup
PayMark(p) ==
  /\ pc[p] = "pay_mark"
  /\ UNCHANGED store
  /\ LET event == getEventById(local[p].link[1].billableEventId)
     IN  IF event = <<>> THEN Throw(p, local[p], "NotFoundError")
         ELSE Goto(p, "pay_mark_write", [local[p] EXCEPT !.event = event])

\* markAsPaid: the write
PayMarkWrite(p) ==
  /\ pc[p] = "pay_mark_write"
  /\ LET loc == local[p]
         updated == updateEventStatus(loc.event[1], "PAID", loc.userId,
                                      "Payment received")
     IN  /\ billableEvents' = updateEvent(loc.event[1].id, updated)
         /\ Goto(p, "audit", loc)
  /\ UNCHANGED <<clientPolicies, invoiceLinks, auditLogs, enableQbWrite>>

\* updateStatusFromQb: the link lookup
UpdateStatusFromQb(p) ==
  /\ Idle(p)
  /\ UNCHANGED store
  /\ \E id \in LinkIds, newStatus \in QbSyncStatuses :
       LET link == getInvoiceLinkById(id)
           loc == [NoLocal EXCEPT !.op = "updateStatusFromQb", !.id = id,
                                  !.newStatus = newStatus]
       IN  IF link = <<>> THEN Throw(p, loc, "NotFoundError")
           ELSE /\ Len(link[1].statusHistory) < MaxLinkHist
                /\ Goto(p, "sync_write", [loc EXCEPT !.link = link])

\* an updateStatusFromQb that sets the status and leaves the history alone
SyncWrite_NoHistory(p) ==
  /\ pc[p] = "sync_write"
  /\ LET loc == local[p]
         updated == [loc.link[1] EXCEPT !.qbStatus = loc.newStatus]
     IN  /\ invoiceLinks' = updateInvoiceLink(loc.id, updated)
         /\ Finish(p, loc, Outcome(loc.op, "ok", loc.id, <<>>))
  /\ UNCHANGED <<clientPolicies, billableEvents, auditLogs, enableQbWrite>>

\* updateStatusFromQb: the write
SyncWrite(p) ==
  /\ pc[p] = "sync_write"
  /\ LET loc == local[p]
         updated == [loc.link[1] EXCEPT
                       !.qbStatus = loc.newStatus,
                       !.statusHistory =
                          Append(@, [status |-> loc.newStatus, source |-> "QB_SYNC"])]
     IN  /\ invoiceLinks' = updateInvoiceLink(loc.id, updated)
         /\ Finish(p, loc, Outcome(loc.op, "ok", loc.id, <<>>))
  /\ UNCHANGED <<clientPolicies, billableEvents, auditLogs, enableQbWrite>>

\* ---------------------------------------------------------- specifications
\* a request handler calls a service method that changes an existing entity
Begin(p) ==
  \/ ApproveEvent(p)
  \/ HoldEvent(p)
  \/ CreateInvoice(p)
  \/ RecordPaymentFromQb(p)
  \/ UpdateStatusFromQb(p)

\* a call under way resumes after an await
Resume(p) ==
  \/ CeSave(p)
  \/ CePush(p)
  \/ Audit(p)
  \/ ApWrite(p)
  \/ HoldWrite(p)
  \/ InvCheck(p)
  \/ InvSave(p)
  \/ InvMark(p)
  \/ InvMarkWrite(p)
  \/ PayWrite(p)
  \/ PayMark(p)
  \/ PayMarkWrite(p)
  \/ SyncWrite(p)

\* One call at a time: a single caller, each call run to its end before the
\* next begins.
NextSeq ==
  \/ CreateEvent(1)
  \/ BulkCreateFromSmartsheet(1)
  \/ CeStart(1)
  \/ Begin(1)
  \/ Resume(1)
SpecSeq == Init /\ [][NextSeq]_vars

\* Callers interleaved at their awaits.  With both callers idle, the one
\* that begins is caller 1, so caller 2 begins only while caller 1 is inside
\* a call; a call begins only within the budget below.  The bulk loop is a
\* caller that issues createEvent calls back to back and is left to SpecSeq.
Budget ==
  /\ Len(auditLogs) < MaxRaceAudit
  /\ \A i \in 1..Len(invoiceLinks) :
       Len(invoiceLinks[i].statusHistory) < MaxRaceLinkHist

MayBegin(p) == Budget /\ (p = 1 \/ ~Idle(1))

Next ==
  \E p \in Procs :
    \/ MayBegin(p) /\ Len(billableEvents) < MaxRaceEvents /\ CreateEvent(p)
    \/ MayBegin(p) /\ Begin(p)
    \/ Resume(p)
Spec == Init /\ [][Next]_vars

\* ------------------------------------------------------- fee calculator
\* calculateFee on its own: one policy with one fee rule for OTHER, the rule
\* drawn from the combinations below; the calls ask for either fee type,
\* with and without a base amount.
TierLists ==
  { << [fromAmount |-> 0, hasTo |-> TRUE, toAmount |-> 1000, value |-> 50,
        calculationType |-> "FIXED"],
       [fromAmount |-> 1000, hasTo |-> TRUE, toAmount |-> 5000, value |-> 10,
        calculationType |-> "PERCENTAGE"],
       [fromAmount |-> 5000, hasTo |-> FALSE, toAmount |-> 0, value |-> 400,
        calculationType |-> "FIXED"] >>,
    << [fromAmount |-> 100, hasTo |-> TRUE, toAmount |-> 1000, value |-> 50,
        calculationType |-> "FIXED"],
       [fromAmount |-> 4000, hasTo |-> TRUE, toAmount |-> 5000, value |-> 10,
        calculationType |-> "PERCENTAGE"] >> }
FeeCaps ==
  { [hasMin |-> FALSE, minimumFee |-> 0, hasMax |-> FALSE, maximumFee |-> 0],
    [hasMin |-> TRUE, minimumFee |-> 100, hasMax |-> TRUE, maximumFee |-> 2000],
    [hasMin |-> TRUE, minimumFee |-> 100, hasMax |-> FALSE, maximumFee |-> 0],
    [hasMin |-> FALSE, minimumFee |-> 0, hasMax |-> TRUE, maximumFee |-> 2000],
    [hasMin |-> TRUE, minimumFee |-> 500, hasMax |-> TRUE, maximumFee |-> 300] }
FeeRules ==
  { [feeType |-> "OTHER", calculationType |-> c, value |-> v,
     hasMin |-> caps.hasMin, minimumFee |-> caps.minimumFee,
     hasMax |-> caps.hasMax, maximumFee |-> caps.maximumFee,
     hasTiers |-> tiers # <<>>, tiers |-> tiers] :
       c \in {"FIXED", "PERCENTAGE", "TIERED"}, v \in {15, 1000},
       caps \in FeeCaps, tiers \in TierLists \cup {<<>>} }
BaseAmounts == {0, 100, 999, 1000, 4000, 5000, 20000}

InitFee ==
  /\ \E rule \in FeeRules :
       clientPolicies = << [InitPolicies[1] EXCEPT !.feeRules = <<rule>>] >>
  /\ billableEvents = <<>>
  /\ invoiceLinks = <<>>
  /\ auditLogs = <<>>
  /\ enableQbWrite = FALSE
  /\ pc = [p \in Procs |-> "idle"]
  /\ local = [p \in Procs |-> NoLocal]
  /\ result = [p \in Procs |-> NoResult]

\* a call of policyService.calculateFee; the caller keeps the arguments in
\* local.input (salary is the base amount) and the value returned in result
CalculateFee(p) ==
  /\ Idle(p)
  /\ UNCHANGED store
  /\ \E feeType \in FeeTypes, baseAmount \in {<<>>} \cup {<<b>> : b \in BaseAmounts} :
       LET fee == calculateFee(clientPolicies[1], feeType, baseAmount)
       IN  /\ pc' = [pc EXCEPT ![p] = "done"]
           /\ local' = [local EXCEPT ![p] =
                [NoLocal EXCEPT !.op = "calculateFee",
                                !.input = [NoTrigger EXCEPT !.clientId = "c1",
                                                            !.feeType = feeType,
                                                            !.salary = baseAmount]]]
           /\ result' = [result EXCEPT ![p] =
                [Outcome("calculateFee", IF fee = <<>> THEN "null" ELSE "ok",
                         0, <<>>) EXCEPT !.amount = fee]]

NextFee == CalculateFee(1)
SpecFee == InitFee /\ [][NextFee]_vars

\* ------------------------------------------------------------------ aging
\* Time is counted in half days; a dueDate is a calendar date (midnight), the
\* clock reads any half day.
DayTicks == 2

\* Math.ceil(a / b) for b > 0
MathCeil(a, b) == -((-a) \div b)

getDaysOverdue(invoiceLink, today) ==
  IF invoiceLink.qbStatus = "PAID" \/ invoiceLink.balance <= 0 THEN 0
  ELSE Max(0, MathCeil(today - invoiceLink.dueDate, DayTicks))

isOverdue(invoiceLink, today) == getDaysOverdue(invoiceLink, today) > 0

\* JsonFileStorage.getOverdueInvoiceLinks
getOverdueInvoiceLinks(today) ==
  LET Test(l) == isOverdue(l, today)
  IN  SelectSeq(invoiceLinks, Test)

agingBucket(daysOverdue) ==
  IF daysOverdue <= 30 THEN "1-30"
  ELSE IF daysOverdue <= 60 THEN "31-60"
  ELSE IF daysOverdue <= 90 THEN "61-90"
  ELSE "90+"

AgingBuckets == {"1-30", "31-60", "61-90", "90+"}
EmptySummary(count) ==
  [totalOverdue |-> 0, count |-> count,
   byAging |-> [b \in AgingBuckets |-> [count |-> 0, amount |-> 0]]]

\* the body of the map callback of getOverdueReport, invoice after invoice
RECURSIVE Accumulate(_, _)
Accumulate(invoices, summary) ==
  IF invoices = <<>> THEN summary
  ELSE LET inv == Head(invoices)
       IN  Accumulate(Tail(invoices),
             [summary EXCEPT
                !.totalOverdue = @ + inv.balance,
                !.byAging[inv.agingBucket].count = @ + 1,
                !.byAging[inv.agingBucket].amount = @ + inv.balance])

\* ReconciliationService.getOverdueReport
getOverdueReport(today) ==
  LET overdueInvoices == getOverdueInvoiceLinks(today)
      invoices ==
        [k \in 1..Len(overdueInvoices) |->
           LET inv == overdueInvoices[k]
               daysOverdue == MathCeil(today - inv.dueDate, DayTicks)
           IN  [id |-> inv.id, dueDate |-> inv.dueDate, amount |-> inv.amount,
                balance |-> inv.balance, currency |-> inv.currency,
                daysOverdue |-> daysOverdue,
                agingBucket |-> agingBucket(daysOverdue)]]
  IN  [summary |-> Accumulate(invoices, EmptySummary(Len(overdueInvoices))),
       invoices |-> invoices]

\* The links on file when the queries are asked.  Link i invoices event i
\* (1000 USD); it is as createInvoice left it, or part paid (400), or paid in
\* full (400 + 600), or reported PAID by a status sync with nothing paid.
LinkStages == {"fresh", "partial", "paid", "synced"}
DueDates == {0, 60}
Clock == {-1, 0, 1, 2, 60, 61, 90, 120, 121, 180, 181, 241}

AgedEvent(i, stage) ==
  LET input == Trigger("c1", <<"p", IF i = 1 THEN "1" ELSE "2">>, "2023-12-15",
                       "OTHER", <<>>)
      created == createBillableEvent(i, InitPolicies[1], input, 1000, "u1")
      approved == [updateEventStatus(created, "APPROVED", "u1", "")
                     EXCEPT !.approvedAt = <<"now">>, !.approvedBy = <<"u1">>]
      invoiced == updateEventStatus(approved, "INVOICED", "u1",
                                    "Invoice created in QuickBooks")
  IN  IF stage = "paid"
      THEN updateEventStatus(invoiced, "PAID", "u1", "Payment received")
      ELSE invoiced

AgedLink(i, stage, dueDate) ==
  LET fresh == [dueDate |-> dueDate]
                 @@ createInvoiceLink(i, AgedEvent(i, "fresh"), "u1")
  IN  CASE stage = "fresh" -> fresh
        [] stage = "partial" -> recordPayment(fresh, 400)
        [] stage = "paid" -> recordPayment(recordPayment(fresh, 400), 600)
        [] stage = "synced" ->
             [fresh EXCEPT
                !.qbStatus = "PAID",
                !.statusHistory = Append(@, [status |-> "PAID", source |-> "QB_SYNC"])]

AgedAudit(i, stage) ==
  << createAuditLog("CREATE", "BILLABLE_EVENT", i, "u1"),
     createAuditLog("APPROVE", "BILLABLE_EVENT", i, "u1"),
     createAuditLog("INVOICE_CREATE", "INVOICE_LINK", i, "u1") >>
  \o (IF stage \in {"partial", "paid"}
      THEN <<createAuditLog("PAYMENT_RECORD", "INVOICE_LINK", i, "u1")>> ELSE <<>>)
  \o (IF stage = "paid"
      THEN <<createAuditLog("PAYMENT_RECORD", "INVOICE_LINK", i, "u1")>> ELSE <<>>)

InitAging ==
  /\ clientPolicies = InitPolicies
  /\ \E n \in 0..MaxAgedLinks :
       \E stage \in [1..n -> LinkStages], due \in [1..n -> DueDates] :
          /\ billableEvents = [i \in 1..n |-> AgedEvent(i, stage[i])]
          /\ invoiceLinks = [i \in 1..n |-> AgedLink(i, stage[i], due[i])]
          /\ auditLogs = IF n = 0 THEN <<>>
                         ELSE IF n = 1 THEN AgedAudit(1, stage[1])
                         ELSE AgedAudit(1, stage[1]) \o AgedAudit(2, stage[2])
  /\ enableQbWrite = TRUE
  /\ pc = [p \in Procs |-> "idle"]
  /\ local = [p \in Procs |-> NoLocal]
  /\ result = [p \in Procs |-> NoResult]

\* isOverdue and getDaysOverdue asked of a stored link at clock reading today
IsOverdue(p) ==
  /\ Idle(p)
  /\ UNCHANGED store
  /\ \E i \in 1..Len(invoiceLinks), today \in Clock :
       /\ pc' = [pc EXCEPT ![p] = "done"]
       /\ local' = [local EXCEPT ![p] = NoLocal]
       /\ result' = [result EXCEPT ![p] =
            [Outcome("isOverdue", "ok", invoiceLinks[i].id, <<>>) EXCEPT
               !.report = << [today |-> today,
                              isOverdue |-> isOverdue(invoiceLinks[i], today),
                              daysOverdue |->
                                getDaysOverdue(invoiceLinks[i], today)] >>]]

\* getOverdueReport at clock reading today
GetOverdueReport(p) ==
  /\ Idle(p)
  /\ UNCHANGED store
  /\ \E today \in Clock :
       /\ pc' = [pc EXCEPT ![p] = "done"]
       /\ local' = [local EXCEPT ![p] = NoLocal]
       /\ result' = [result EXCEPT ![p] =
            [Outcome("getOverdueReport", "ok", 0, <<>>) EXCEPT
               !.report = << [today |-> today] @@ getOverdueReport(today) >>]]

NextAging == IsOverdue(1) \/ GetOverdueReport(1)
SpecAging == InitAging /\ [][NextAging]_vars

\* ------------------------------------------------------------ PolicyService
\* JsonFileStorage.getPolicyByClientCode: codes compared in upper case
getPolicyByClientCode(clientCode) ==
  LET i == FirstIdx({k \in 1..Len(clientPolicies) :
                      /\ MapChars(clientPolicies[k].clientCode, toUpperCase)
                           = MapChars(clientCode, toUpperCase)
                      /\ clientPolicies[k].isActive})
  IN  IF i = 0 THEN <<>> ELSE <<clientPolicies[i]>>

getPolicyById(id) ==
  LET i == FirstIdx({k \in 1..Len(clientPolicies) : clientPolicies[k].id = id})
  IN  IF i = 0 THEN <<>> ELSE <<clientPolicies[i]>>

\* createClientPolicy; the uuid is the position the policy will take
createClientPolicy(id, input, createdBy) ==
  [id |-> id, clientId |-> input.clientId, clientCode |-> input.clientCode,
   version |-> 1, currency |-> input.currency, isActive |-> TRUE,
   triggerRule |-> input.triggerRule, feeRules |-> input.feeRules]

\* JsonFileStorage.updatePolicy, { ...current, ...updates }: a property of
\* updates is <<>> when the object does not own it
storageUpdatePolicy(id, updates) ==
  LET index == FirstIdx({k \in 1..Len(clientPolicies) : clientPolicies[k].id = id})
  IN  [clientPolicies EXCEPT
         ![index] = [@ EXCEPT
            !.feeRules = IF updates.feeRules = <<>> THEN @ ELSE updates.feeRules[1],
            !.triggerRule =
               IF updates.triggerRule = <<>> THEN @ ELSE updates.triggerRule[1],
            !.isActive = IF updates.isActive = <<>> THEN @ ELSE updates.isActive[1],
            !.version = updates.version[1]]]

\* what createPolicy and updatePolicy are sent
PolicyInputs ==
  { [clientId |-> "c1", clientCode |-> <<"A", "C">>,
     triggerRule |-> "ON_PLACEMENT", feeRules |-> InitPolicies[1].feeRules,
     currency |-> "USD"],
    [clientId |-> "c2", clientCode |-> <<"p">>,
     triggerRule |-> "ON_PLACEMENT", feeRules |-> InitPolicies[1].feeRules,
     currency |-> "USD"] }
NoUpdates ==
  [feeRules |-> <<>>, triggerRule |-> <<>>, isActive |-> <<>>, version |-> <<>>]
PolicyUpdates ==
  { [NoUpdates EXCEPT
       !.feeRules = << << [InitPolicies[1].feeRules[1] EXCEPT !.value = 2000] >> >>],
    [NoUpdates EXCEPT !.triggerRule = <<"MANUAL">>],
    [NoUpdates EXCEPT !.isActive = <<TRUE>>] }
PolicyIds == 1..(Len(clientPolicies) + 1)

\* createPolicy: the lookup by client code and the check
CreatePolicy(p) ==
  /\ Idle(p)
  /\ UNCHANGED store
  /\ \E input \in PolicyInputs, u \in Users :
       LET existing == getPolicyByClientCode(input.clientCode)
           loc == [NoLocal EXCEPT !.op = "createPolicy", !.userId = u]
       IN  IF existing # <<>> /\ existing[1].isActive
           THEN Throw(p, loc, "ValidationError")
           ELSE /\ Len(clientPolicies) < MaxPolicies
                /\ Goto(p, "pol_save",
                        [loc EXCEPT !.policy = <<createClientPolicy(0, input, u)>>])

\* createPolicy: storage.savePolicy
PolSave(p) ==
  /\ pc[p] = "pol_save"
  /\ LET policy == [local[p].policy[1] EXCEPT !.id = Len(clientPolicies) + 1]
     IN  /\ clientPolicies' = Append(clientPolicies, policy)
         /\ Goto(p, "audit",
                 [local[p] EXCEPT
                    !.policy = <<policy>>, !.id = policy.id,
                    !.audit = <<createAuditLog("CREATE", "CLIENT_POLICY",
                                               policy.id, local[p].userId)>>])
  /\ UNCHANGED <<billableEvents, invoiceLinks, auditLogs, enableQbWrite>>

\* updatePolicy up to its write: getPolicyById
PolicyLookup(p, op, id, updates, u) ==
  LET existing == getPolicyById(id)
      loc == [NoLocal EXCEPT !.op = op, !.userId = u, !.id = id]
  IN  /\ UNCHANGED store
      /\ IF existing = <<>> THEN Throw(p, loc, "NotFoundError")
         ELSE /\ existing[1].version < MaxVersion
              /\ Goto(p, "pol_write",
                      [loc EXCEPT !.policy = existing, !.updates = <<updates>>])

UpdatePolicy(p) ==
  /\ Idle(p)
  /\ \E id \in PolicyIds, updates \in PolicyUpdates, u \in Users :
       PolicyLookup(p, "updatePolicy", id, updates, u)

\* deactivatePolicy: updatePolicy(context, id, { isActive: false })
DeactivatePolicy(p) ==
  /\ Idle(p)
  /\ \E id \in PolicyIds, u \in Users :
       PolicyLookup(p, "deactivatePolicy", id,
                    [NoUpdates EXCEPT !.isActive = <<FALSE>>], u)

\* an updatePolicy that writes the version it found
PolWrite_NoBump(p) ==
  /\ pc[p] = "pol_write"
  /\ LET loc == local[p]
     IN  /\ clientPolicies' =
               storageUpdatePolicy(loc.id,
                  [loc.updates[1] EXCEPT !.version = <<loc.policy[1].version>>])
         /\ Goto(p, "audit",
                 [loc EXCEPT !.audit = <<createAuditLog("UPDATE", "CLIENT_POLICY",
                                                        loc.id, loc.userId)>>])
  /\ UNCHANGED <<billableEvents, invoiceLinks, auditLogs, enableQbWrite>>

\* updatePolicy: the version and storage.updatePolicy
PolWrite(p) ==
  /\ pc[p] = "pol_write"
  /\ LET loc == local[p]
         existing == loc.policy[1]
         updates == loc.updates[1]
         version == IF updates.feeRules # <<>> \/ updates.triggerRule # <<>>
                    THEN existing.version + 1 ELSE existing.version
     IN  /\ clientPolicies' =
               storageUpdatePolicy(loc.id, [updates EXCEPT !.version = <<version>>])
         /\ Goto(p, "audit",
                 [loc EXCEPT !.audit = <<createAuditLog("UPDATE", "CLIENT_POLICY",
                                                        loc.id, loc.userId)>>])
  /\ UNCHANGED <<billableEvents, invoiceLinks, auditLogs, enableQbWrite>>

\* The policy administration, one call at a time, with events created and
\* moved between PENDING, APPROVED and HOLD in between; a call begins only
\* within the budget below.
PolicyBudget == Len(auditLogs) < MaxPolicyAudit

NextPolicy ==
  \/ PolicyBudget /\ CreatePolicy(1)
  \/ PolSave(1)
  \/ PolicyBudget /\ UpdatePolicy(1)
  \/ PolicyBudget /\ DeactivatePolicy(1)
  \/ PolWrite(1)
  \/ PolicyBudget /\ Len(billableEvents) < MaxPolicyEvents /\ CreateEvent(1)
  \/ CeSave(1)
  \/ CePush(1)
  \/ PolicyBudget /\ ApproveEvent(1)
  \/ ApWrite(1)
  \/ PolicyBudget /\ HoldEvent(1)
  \/ HoldWrite(1)
  \/ Audit(1)
SpecPolicy == Init /\ [][NextPolicy]_vars

\* ------------------------------------------------------------ key codec
\* parseIdempotencyKey: key.match(/^([A-Z0-9]+)-([A-Za-z0-9_-]+)-(\d{8})-([A-Z_]+)$/).
\* The first group holds no hyphen, so it ends at the first one; the last
\* group holds none, so it begins after the last one; the digits end there
\* and begin after the hyphen before it.  null is <<>>.
parseIdempotencyKey(key) ==
  LET hyphens == {x \in 1..Len(key) : key[x] = "-"}
      i == FirstIdx(hyphens)
      k == IF hyphens = {} THEN 0 ELSE CHOOSE x \in hyphens : \A y \in hyphens : y <= x
      j == k - 9
      match ==
        /\ i > 1 /\ AllIn(key, 1, i - 1, UpperLetters \cup Digits)
        /\ j > i + 1 /\ key[j] = "-" /\ AllIn(key, i + 1, j - 1, ControlNumberChars)
        /\ AllIn(key, j + 1, k - 1, Digits)
        /\ k < Len(key) /\ AllIn(key, k + 1, Len(key), UpperLetters \cup {"_"})
      dateStr == SubSeq(key, j + 1, k - 1)
  IN  IF ~match THEN <<>>
      ELSE << [clientCode |-> SubSeq(key, 1, i - 1),
               controlNumber |-> SubSeq(key, i + 1, j - 1),
               triggerDate |-> SubSeq(dateStr, 1, 4) \o <<"-">> \o SubSeq(dateStr, 5, 6)
                                 \o <<"-">> \o SubSeq(dateStr, 7, 8),
               feeType |-> SubSeq(key, k + 1, Len(key))] >>

\* the strings generateKey is called with
KeyClientCodes == {<<"a", "c">>, <<"A", "C">>, <<"a", "-", "c">>, <<"a">>, <<>>}
KeyControlNumbers ==
  {<<"p", "1">>, <<"P", "1">>, <<"P", "#", "1">>, <<"p", "-", "1">>,
   <<"c", "-", "p", "1">>, <<"#">>, <<>>}

\* IdempotencyService.generateKey: the caller keeps the arguments in
\* local.input and the key returned, or the error thrown, in result
GenerateKey(p) ==
  /\ Idle(p)
  /\ UNCHANGED store
  /\ \E clientCode \in KeyClientCodes, controlNumber \in KeyControlNumbers,
        triggerDate \in TriggerDates, feeType \in DOMAIN FeeTypeStrings :
       /\ pc' = [pc EXCEPT ![p] = "done"]
       /\ local' = [local EXCEPT ![p] =
            [NoLocal EXCEPT !.op = "generateKey",
                            !.input = [NoTrigger EXCEPT
                                         !.clientCode = clientCode,
                                         !.controlNumber = controlNumber,
                                         !.triggerDate = triggerDate,
                                         !.feeType = feeType]]]
       /\ result' = [result EXCEPT ![p] =
            IF ~DateParses(triggerDate)
            THEN Outcome("generateKey", "RangeError", 0, <<>>)
            ELSE Outcome("generateKey", "ok", 0,
                         <<generateIdempotencyKey(clientCode, controlNumber,
                                                  triggerDate, feeType)>>)]

\* IdempotencyService.parseKey of the key just generated
ParseKey(p) ==
  /\ pc[p] = "done" /\ result[p].op = "generateKey" /\ result[p].kind = "ok"
  /\ UNCHANGED <<store, pc, local>>
  /\ LET parsed == parseIdempotencyKey(result[p].key[1])
     IN  result' = [result EXCEPT ![p] =
           [Outcome("parseKey", IF parsed = <<>> THEN "null" ELSE "ok",
                    0, result[p].key) EXCEPT !.report = parsed]]

InitKey ==
  /\ clientPolicies = <<>>
  /\ billableEvents = <<>>
  /\ invoiceLinks = <<>>
  /\ auditLogs = <<>>
  /\ enableQbWrite = FALSE
  /\ pc = [p \in Procs |-> "idle"]
  /\ local = [p \in Procs |-> NoLocal]
  /\ result = [p \in Procs |-> NoResult]
NextKey == GenerateKey(1) \/ ParseKey(1)
SpecKey == InitKey /\ [][NextKey]_vars

\* ------------------------------------------------------------ error codes
\* The code string the error handler of server.ts answers with: err.code of
\* an AppError, INTERNAL_ERROR for any other error.
errorCode(kind) ==
  IF kind = "ValidationError" THEN "VALIDATION_ERROR"
  ELSE IF kind = "NotFoundError" THEN "NOT_FOUND"
  ELSE IF kind = "DuplicateError" THEN "DUPLICATE_ENTRY"
  ELSE IF kind \in {"IntegrationError", "QuickBooksError", "SmartsheetError"}
       THEN "INTEGRATION_ERROR"
  ELSE IF kind = "PhaseRestrictionError" THEN "PHASE_RESTRICTION"
  ELSE "INTERNAL_ERROR"

\* ------------------------------------------------------------ hold route
\* req.body.reason as the clients send it: a reason, or none
HoldReasons == Reasons \cup {""}

\* a route that hands every reason to the service
PostHoldWith_NoCheck(p, id, u, reason) ==
  /\ Idle(p)
  /\ UNCHANGED store
  /\ HoldEventCall(p, id, u, reason)

\* POST /api/billable-events/:id/hold: the check of the reason, then
\* billableEventService.holdEvent; the error goes to the error handler
PostHoldWith(p, id, u, reason) ==
  /\ Idle(p)
  /\ UNCHANGED store
  /\ IF reason = ""
     THEN Throw(p, [NoLocal EXCEPT !.op = "holdEvent", !.userId = u, !.id = id],
                "ValidationError")
     ELSE HoldEventCall(p, id, u, reason)

PostHold(p) ==
  \E id \in EventIds, u \in Users, reason \in HoldReasons :
     PostHoldWith(p, id, u, reason)

\* The event routes create, approve and hold, one request at a time; a
\* request begins only within the budget below.
HoldBudget == Len(auditLogs) < MaxHoldAudit

NextHold ==
  \/ HoldBudget /\ CreateEvent(1)
  \/ CeSave(1)
  \/ CePush(1)
  \/ HoldBudget /\ ApproveEvent(1)
  \/ ApWrite(1)
  \/ HoldBudget /\ PostHold(1)
  \/ HoldWrite(1)
  \/ Audit(1)
SpecHold == Init /\ [][NextHold]_vars

\* ------------------------------------------------------------ idempotency
SameKey(i, j) ==
  billableEvents[i].idempotencyKey = billableEvents[j].idempotencyKey

\* C1: with the calls executed one at a time (createEvent and
\* bulkCreateFromSmartsheet mixed with approve, hold, createInvoice and
\* payments), no two persisted billable events have the same idempotencyKey.
C1_UniqueIdempotencyKeys ==
  \A i, j \in 1..Len(billableEvents) : SameKey(i, j) => i = j

\* two events are stored, one of them has left PENDING, and a further
\* createEvent with the key of the first has been turned away
C1_Witness ==
  /\ Len(billableEvents) = 2
  /\ billableEvents[2].status # "PENDING"
  /\ result[1].op = "createEvent"
  /\ result[1].kind = "DuplicateError"
  /\ result[1].key = billableEvents[1].idempotencyKey

Created(p) == result[p].op = "createEvent" /\ result[p].kind = "ok"

\* C2: of two createEvent calls that run concurrently with inputs deriving
\* the same key, exactly one returns an event (the other fails with a
\* Duplicate error), so two callers never both hold a created event with one
\* key and the store never holds two events with that key.
C2_OneCreatorPerKey ==
  \A p, q \in Procs :
     (p # q /\ Created(p) /\ Created(q))
       => ~SameKey(result[p].id, result[q].id)

\* the key a createEvent request derives, <<>> when none can be derived
DerivedKey(input) ==
  LET found == getPolicyByClientId(input.clientId)
  IN  IF found = <<>> \/ ~DateParses(input.triggerDate) THEN <<>>
      ELSE <<generateIdempotencyKey(found[1].clientCode, input.controlNumber,
                                    input.triggerDate, input.feeType)>>

Collides(input) ==
  /\ DerivedKey(input) # <<>>
  /\ \E i \in 1..Len(billableEvents) :
       billableEvents[i].idempotencyKey = DerivedKey(input)[1]

CreateEventWith(p, input, u) ==
  /\ Idle(p)
  /\ CeValidate(p, [NoLocal EXCEPT !.op = "createEvent", !.userId = u,
                                   !.input = input])

\* C3: a createEvent whose derived key is the key of a persisted event fails
\* with a DuplicateError that carries that key, and the persisted events
\* (every field of each) stay as they were.
C3_DuplicateRejected ==
  [][(/\ Idle(1) /\ billableEvents # <<>>
      /\ \/ pc'[1] = "done" /\ result'[1].op = "createEvent"
         \/ pc'[1] = "ce_save")
       => \A input \in Triggers, u \in Users :
            (Collides(input) /\ CreateEventWith(1, input, u))
              => /\ pc'[1] = "done"
                 /\ result'[1].op = "createEvent"
                 /\ result'[1].kind = "DuplicateError"
                 /\ result'[1].key = DerivedKey(input)[1]
                 /\ billableEvents' = billableEvents]_vars

\* a colliding createEvent, sent with a control number spelled differently
\* from the stored event's, has just been turned away
C3_Witness ==
  /\ Len(billableEvents) = 1
  /\ billableEvents[1].status = "APPROVED"
  /\ result[1].op = "createEvent"
  /\ result[1].kind = "DuplicateError"
  /\ result[1].key = billableEvents[1].idempotencyKey

\* ---------------------------------------------------------- invoice links
\* caller 1 begins the method `op` on entity `id` in this step
Begins(op, id) ==
  /\ Idle(1)
  /\ \/ pc'[1] \notin {"idle", "done"} /\ local'[1].op = op /\ local'[1].id = id
     \/ pc'[1] = "done" /\ result'[1].op = op /\ result'[1].id = id
\* caller 1's call ends in this step with an error
Fails == pc'[1] = "done" /\ result'[1].kind # "ok"

HasEvent(id) == \E i \in 1..Len(billableEvents) : billableEvents[i].id = id
StatusOf(id) ==
  billableEvents[CHOOSE i \in 1..Len(billableEvents) : billableEvents[i].id = id].status
LinksOf(id) ==
  {i \in 1..Len(invoiceLinks) : invoiceLinks[i].billableEventId = id}

\* C4: with the operations executed one at a time, each billable event has
\* at most one invoice link; a link is persisted only for an event whose
\* status is APPROVED and that has no link, createInvoice returns only
\* with its link persisted, and a createInvoice on an event that is missing,
\* not APPROVED or already linked fails and persists nothing.
C4_OneLinkPerEvent ==
  /\ [](\A id \in EventIds : Cardinality(LinksOf(id)) <= 1)
  /\ [][/\ invoiceLinks' # invoiceLinks /\ Len(invoiceLinks') > Len(invoiceLinks)
            => LET id == invoiceLinks'[Len(invoiceLinks')].billableEventId
               IN  /\ Len(invoiceLinks') = Len(invoiceLinks) + 1
                   /\ pc[1] = "inv_save" /\ local[1].id = id
                   /\ HasEvent(id) /\ StatusOf(id) = "APPROVED"
                   /\ LinksOf(id) = {}
        /\ (pc[1] = "audit" /\ local[1].op = "createInvoice" /\ ~Fails)
            => /\ pc'[1] = "done" /\ result'[1].kind = "ok"
               /\ \E i \in 1..Len(invoiceLinks) :
                     /\ invoiceLinks[i].id = result'[1].id
                     /\ StatusOf(invoiceLinks[i].billableEventId) = "INVOICED"
        /\ \A id \in EventIds :
             (Begins("createInvoice", id)
                /\ (~HasEvent(id) \/ StatusOf(id) # "APPROVED"))
               => Fails /\ invoiceLinks' = invoiceLinks
        /\ (pc[1] = "inv_check" /\ LinksOf(local[1].id) # {})
             => Fails /\ invoiceLinks' = invoiceLinks]_vars

\* an event was invoiced, and a second createInvoice for it has failed
\* without a second link
C4_Witness ==
  /\ result[1].op = "createInvoice"
  /\ result[1].kind = "ValidationError"
  /\ HasEvent(result[1].id)
  /\ StatusOf(result[1].id) = "INVOICED"
  /\ Cardinality(LinksOf(result[1].id)) = 1

\* --------------------------------------------------------- status machine
\* the stored event `id` is the same before and after the step
EventKept(id) ==
  \A i \in 1..Len(billableEvents) :
     billableEvents[i].id = id => billableEvents'[i] = billableEvents[i]

\* C5: approveEvent succeeds only from PENDING or HOLD, then setting
\* APPROVED and stamping approvedAt/approvedBy; on an event in any other
\* status it fails with an IllegalTransition error and leaves the event's
\* status and statusHistory as they were.
C5_ApproveOnlyFromPendingOrHold ==
  [][/\ \A id \in EventIds :
          (Begins("approveEvent", id) /\ HasEvent(id)
             /\ StatusOf(id) \notin {"PENDING", "HOLD"})
            => /\ Fails
               /\ result'[1].kind = "IllegalTransitionError"
               /\ EventKept(id)
     /\ pc[1] = "ap_write"
          => /\ local[1].event[1].status \in {"PENDING", "HOLD"}
             /\ StatusOf(local[1].id)' = "APPROVED"
             /\ \E i \in 1..Len(billableEvents) :
                   /\ billableEvents'[i].id = local[1].id
                   /\ billableEvents'[i].approvedAt # <<>>
                   /\ billableEvents'[i].approvedBy = <<local[1].userId>>]_vars

\* C6: holdEvent succeeds only from PENDING or APPROVED, then setting HOLD;
\* on an event in any other status it fails and leaves the event's status
\* and statusHistory as they were.
C6_HoldOnlyFromPendingOrApproved ==
  [][/\ \A id \in EventIds :
          (Begins("holdEvent", id) /\ HasEvent(id)
             /\ StatusOf(id) \notin {"PENDING", "APPROVED"})
            => Fails /\ EventKept(id)
     /\ pc[1] = "hold_write"
          => /\ StatusOf(local[1].id) \in {"PENDING", "APPROVED"}
             /\ StatusOf(local[1].id)' = "HOLD"
     /\ (pc[1] = "audit" /\ local[1].op = "holdEvent" /\ ~Fails)
          => /\ result'[1].kind = "ok"
             /\ StatusOf(result'[1].id) = "HOLD"]_vars

\* holdEvent on an invoiced event has failed, the event still INVOICED with
\* the history its invoicing left
C6_Witness ==
  /\ result[1].op = "holdEvent"
  /\ result[1].kind = "ValidationError"
  /\ HasEvent(result[1].id)
  /\ StatusOf(result[1].id) = "INVOICED"
  /\ \E i \in 1..Len(billableEvents) :
       /\ billableEvents[i].id = result[1].id
       /\ billableEvents[i].statusHistory[Len(billableEvents[i].statusHistory)].status
            = "INVOICED"

\* C7: whatever the sequence or interleaving of operations, the only status
\* that directly follows HOLD on a stored event is APPROVED, written by
\* approveEvent.
C7_HoldLeavesOnlyToApproved ==
  [][\A i \in 1..Len(billableEvents) :
       (billableEvents[i].status = "HOLD" /\ billableEvents'[i].status # "HOLD")
         => /\ billableEvents'[i].status = "APPROVED"
            /\ \E p \in Procs : pc[p] = "ap_write" /\ local[p].op = "approveEvent"]_vars

\* the entries of an event's history, as statuses
Statuses(event) ==
  [k \in 1..Len(event.statusHistory) |-> event.statusHistory[k].status]

\* C8: an event's status changes to INVOICED only from APPROVED and only
\* as the markAsInvoiced step of a createInvoice whose invoice was created
\* and whose link is stored; an invoiced event's history ends with INVOICED,
\* every INVOICED entry of a history has an APPROVED entry before it, and a
\* link is stored only for an event approved before.
C8_InvoicedOnlyFromApproved ==
  /\ [](\A i \in 1..Len(billableEvents) :
          LET h == Statuses(billableEvents[i])
          IN  /\ billableEvents[i].status = "INVOICED" => h[Len(h)] = "INVOICED"
              /\ \A k \in 1..Len(h) :
                    h[k] = "INVOICED" => \E j \in 1..(k - 1) : h[j] = "APPROVED"
              /\ LinksOf(billableEvents[i].id) # {}
                    => \E j \in 1..Len(h) : h[j] = "APPROVED")
  /\ [][\A i \in 1..Len(billableEvents) :
          (billableEvents'[i].status = "INVOICED"
             /\ billableEvents[i].status # "INVOICED")
            => /\ billableEvents[i].status = "APPROVED"
               /\ pc[1] = "inv_mark_write"
               /\ local[1].op = "createInvoice"
               /\ local[1].qbInvoice
               /\ LinksOf(billableEvents[i].id) # {}]_vars

\* an event that was put on hold and approved again has been invoiced
C8_Witness ==
  \E i \in 1..Len(billableEvents) :
     /\ billableEvents[i].status = "INVOICED"
     /\ \E j \in 1..Len(billableEvents[i].statusHistory) :
          billableEvents[i].statusHistory[j].status = "HOLD"
     /\ result[1].op = "createInvoice"
     /\ result[1].kind = "ok"

\* createInvoice can be called on the event and pass its checks
Invoiceable(id) ==
  /\ enableQbWrite
  /\ HasEvent(id)
  /\ StatusOf(id) = "APPROVED"
  /\ LinksOf(id) = {}

C10_BalanceNeverNegative ==
  /\ [](\A i \in 1..Len(invoiceLinks) : invoiceLinks[i].balance >= 0)
  /\ [][pc[1] = "pay_write"
          => \A i \in 1..Len(invoiceLinks) :
                invoiceLinks[i].id = local[1].id
                  => invoiceLinks'[i].balance
                       = Max(0, invoiceLinks'[i].amount - invoiceLinks'[i].totalPaid)]_vars

\* C11: every payment recordPaymentFromQb applies leaves the link's
\* totalPaid at least what it was: totalPaid only grows.
C11_TotalPaidOnlyGrows ==
  [][\A i \in 1..Len(invoiceLinks) :
       invoiceLinks'[i].totalPaid >= invoiceLinks[i].totalPaid]_vars

\* C12: after a payment is applied to a link of amount A, giving totalPaid
\* T: with A - T <= 0 the link is PAID and paidInFullDate is set; otherwise
\* with T > 0 it is PARTIAL; otherwise its status is what it was.
C12_StatusDerivation ==
  [][pc[1] = "pay_write"
       => \A i \in 1..Len(invoiceLinks) :
             invoiceLinks[i].id = local[1].id
               => LET before == invoiceLinks[i]
                      after == invoiceLinks'[i]
                      A == before.amount
                      T == before.totalPaid + local[1].amount
                  IN  /\ after.totalPaid = T
                      /\ after.payments = Append(before.payments, local[1].amount)
                      /\ IF A - T <= 0
                         THEN /\ after.qbStatus = "PAID"
                              /\ after.paidInFullDate \notin {Absent, Undefined}
                         ELSE IF T > 0
                              THEN after.qbStatus = "PARTIAL"
                              ELSE after.qbStatus = before.qbStatus]_vars

LinkStatuses(link) ==
  [k \in 1..Len(link.statusHistory) |-> link.statusHistory[k].status]

\* payments of 400 and 600 on an invoice of 1000: PARTIAL after the first,
\* PAID with the date stamped after the second
C12_Witness ==
  \E i \in 1..Len(invoiceLinks) :
     /\ invoiceLinks[i].amount = 1000
     /\ invoiceLinks[i].payments = <<400, 600>>
     /\ LinkStatuses(invoiceLinks[i]) = <<"PENDING", "PARTIAL", "PAID">>
     /\ invoiceLinks[i].paidInFullDate = <<"paymentDate">>

\* C13: when recordPaymentFromQb returns and has left the link PAID, the
\* linked event is PAID; when it has left the link in another status, the
\* call has not changed the event.
C13_PaidLinkMarksEventPaid ==
  [][/\ (pc[1] = "audit" /\ local[1].op = "recordPaymentFromQb"
           /\ pc'[1] = "done" /\ result'[1].kind = "ok")
          => \A i \in 1..Len(invoiceLinks) :
                (invoiceLinks[i].id = result'[1].id
                   /\ invoiceLinks[i].qbStatus = "PAID")
                  => StatusOf(invoiceLinks[i].billableEventId) = "PAID"
     /\ (pc[1] = "pay_write" /\ pc'[1] = "audit")
          => /\ local'[1].link[1].qbStatus # "PAID"
             /\ billableEvents' = billableEvents]_vars

\* amount 1000: after payments of 400 and 600 the call has returned, the
\* link is PAID with balance 0 and the event is PAID
C13_Witness ==
  /\ pc[1] = "done"
  /\ result[1].op = "recordPaymentFromQb"
  /\ result[1].kind = "ok"
  /\ \E i \in 1..Len(invoiceLinks) :
       /\ invoiceLinks[i].id = result[1].id
       /\ invoiceLinks[i].amount = 1000
       /\ invoiceLinks[i].totalPaid = 1000
       /\ invoiceLinks[i].balance = 0
       /\ invoiceLinks[i].qbStatus = "PAID"
       /\ StatusOf(invoiceLinks[i].billableEventId) = "PAID"

\* C14: every event with status PAID has an invoice link whose balance
\* is 0.
C14_PaidEventHasZeroBalance ==
  \A i \in 1..Len(billableEvents) :
     billableEvents[i].status = "PAID"
       => \E j \in LinksOf(billableEvents[i].id) : invoiceLinks[j].balance = 0

\* ------------------------------------------------------------ concurrency
\* both callers have returned successfully from `op1` and `op2` on entity id
BothReturned(op1, op2, id) ==
  \E p, q \in Procs :
     /\ p # q
     /\ pc[p] = "done" /\ result[p].kind = "ok"
     /\ result[p].op = op1 /\ result[p].id = id
     /\ pc[q] = "done" /\ result[q].kind = "ok"
     /\ result[q].op = op2 /\ result[q].id = id

\* C15: with the callers interleaved at their awaits, no update of an entity
\* is lost.  When approveEvent and holdEvent on the same event have both
\* returned successfully, the event's statusHistory holds an APPROVED and a
\* HOLD entry; when two recordPaymentFromQb calls on the same link have both
\* returned successfully, the link's payments hold both payments and
\* totalPaid is their sum.
C15_NoLostUpdate ==
  /\ \A i \in 1..Len(billableEvents) :
       BothReturned("approveEvent", "holdEvent", billableEvents[i].id)
         => {"APPROVED", "HOLD"} \subseteq SeqRange(Statuses(billableEvents[i]))
  /\ \A i \in 1..Len(invoiceLinks) :
       BothReturned("recordPaymentFromQb", "recordPaymentFromQb", invoiceLinks[i].id)
         => Len(invoiceLinks[i].payments) >= 2


\* ---------------------------------------------------------- status history
\* C16: with the calls executed one at a time, an event enters the store
\* PENDING with exactly one history entry, a PENDING one; no event leaves
\* the store; a step that changes a stored event's status or history keeps
\* the entries the history had and appends exactly one entry, whose status
\* is the event's new status; and after every step the last history entry
\* of every event carries the event's status.
C16_HistoryAppendOnly ==
  [][/\ Len(billableEvents') >= Len(billableEvents)
     /\ \A i \in 1..Len(billableEvents') :
          LET new == billableEvents'[i]
              h == new.statusHistory
          IN  /\ h # <<>> /\ h[Len(h)].status = new.status
              /\ IF i > Len(billableEvents)
                 THEN new.status = "PENDING" /\ Statuses(new) = <<"PENDING">>
                 ELSE LET old == billableEvents[i]
                          g == old.statusHistory
                      IN  (new.status # old.status \/ h # g)
                            => /\ Len(h) = Len(g) + 1
                               /\ SubSeq(h, 1, Len(g)) = g]_vars

\* an event held and then approved: three entries, one per transition
C16_Witness ==
  /\ pc[1] = "done" /\ result[1].op = "approveEvent" /\ result[1].kind = "ok"
  /\ \E i \in 1..Len(billableEvents) :
       /\ billableEvents[i].id = result[1].id
       /\ billableEvents[i].status = "APPROVED"
       /\ Statuses(billableEvents[i]) = <<"PENDING", "HOLD", "APPROVED">>


Snapshot(link, events) ==
  \E j \in 1..Len(events) :
     /\ events[j].id = link.billableEventId
     /\ events[j].idempotencyKey = link.idempotencyKey
     /\ events[j].amount = link.amount
     /\ events[j].currency = link.currency

\* C18: with the calls executed one at a time, a link enters the store with
\* status PENDING, totalPaid 0, no payment and balance equal to its amount;
\* no step (payment, status sync or any other) changes a stored link's
\* amount, currency, billableEventId or idempotencyKey; after every step
\* these four equal the amount, currency, id and idempotencyKey of a stored
\* event; and when createInvoice returns the link, its event is INVOICED.
C18_LinkSnapshotFrozen ==
  [][/\ \A i \in 1..Len(invoiceLinks') :
          LET new == invoiceLinks'[i]
          IN  /\ Snapshot(new, billableEvents')
              /\ IF i > Len(invoiceLinks)
                 THEN /\ new.qbStatus = "PENDING" /\ new.totalPaid = 0
                      /\ new.payments = <<>> /\ new.balance = new.amount
                 ELSE LET old == invoiceLinks[i]
                      IN  /\ new.amount = old.amount
                          /\ new.currency = old.currency
                          /\ new.billableEventId = old.billableEventId
                          /\ new.idempotencyKey = old.idempotencyKey
     /\ (/\ pc[1] = "audit" /\ local[1].op = "createInvoice"
         /\ pc'[1] = "done" /\ result'[1].kind = "ok")
          => \E i \in 1..Len(invoiceLinks) :
                /\ invoiceLinks[i].id = result'[1].id
                /\ StatusOf(invoiceLinks[i].billableEventId) = "INVOICED"]_vars

\* a link of 1000 USD synced to PAID and then paid 400: amount and currency
\* are still the event's
C18_Witness ==
  \E i \in 1..Len(invoiceLinks) :
     /\ invoiceLinks[i].amount = 1000 /\ invoiceLinks[i].currency = "USD"
     /\ invoiceLinks[i].payments = <<400>> /\ invoiceLinks[i].balance = 600
     /\ LinkStatuses(invoiceLinks[i]) = <<"PENDING", "PAID", "PARTIAL">>
     /\ Snapshot(invoiceLinks[i], billableEvents)
     /\ StatusOf(invoiceLinks[i].billableEventId) = "INVOICED"


\* ------------------------------------------------------------ bulk create
\* the placements a bulk loop or its result has filed so far
Tally(x) == Len(x.created) + Len(x.duplicates) + x.errors

\* C19: bulkCreateFromSmartsheet files every placement under exactly one of
\* created, duplicates and errors and always returns.  While the loop runs,
\* the placements filed, the one at hand and those still to come add up to
\* the length of the input; the loop ends only by returning the three lists,
\* never by throwing, and the lists then add up to the length of the input;
\* an entry filed under duplicates carries the control number of a placement
\* and the idempotency key that placement derives, which is the key of a
\* stored event; an event filed under created is stored.
C19_BulkFilesEveryPlacement ==
  [][LET bulkStep == \/ local[1].bulk \/ local'[1].bulk
                     \/ (Idle(1) /\ pc'[1] = "done"
                           /\ result'[1].op = "bulkCreateFromSmartsheet")
         before == IF local[1].bulk THEN local[1] ELSE NoLocal
         after == IF pc'[1] = "done" THEN result'[1] ELSE local'[1]
     IN  bulkStep =>
           /\ IF pc'[1] = "done"
              THEN /\ result'[1].op = "bulkCreateFromSmartsheet"
                   /\ result'[1].kind = "ok"
                   /\ Tally(after) = after.total
              ELSE /\ local'[1].bulk
                   /\ Tally(after) + 1 + after.todo = after.total
           /\ local[1].bulk => after.total = before.total
           /\ Len(after.duplicates) > Len(before.duplicates) =>
                \E placement \in Placements :
                   /\ Collides(placement)
                   /\ after.duplicates =
                        Append(before.duplicates,
                               [controlNumber |-> placement.controlNumber,
                                idempotencyKey |-> DerivedKey(placement)[1]])
           /\ \A k \in 1..Len(after.created) :
                \E j \in 1..Len(billableEvents') :
                   billableEvents'[j].id = after.created[k]]_vars

\* a batch of two whose first placement duplicates the stored event 1 and
\* whose second is created as event 2
C19_Witness ==
  /\ pc[1] = "done" /\ result[1].op = "bulkCreateFromSmartsheet"
  /\ result[1].total = 2 /\ result[1].errors = 0
  /\ result[1].created = <<2>>
  /\ Len(result[1].duplicates) = 1
  /\ result[1].duplicates[1].idempotencyKey = billableEvents[1].idempotencyKey


\* ------------------------------------------------------------------ audit
\* C20: a failure of the audit write never fails the operation.  The audit
\* entry is the last step of createEvent, approveEvent, holdEvent,
\* createInvoice and recordPaymentFromQb (called directly, not from the bulk
\* loop): whatever happens to the write, the call returns its successful
\* result and the events and links it has stored stay as they are.
C20_AuditFailureTolerated ==
  [][(pc[1] = "audit" /\ ~local[1].bulk)
       => /\ pc'[1] = "done"
          /\ result'[1].op = local[1].op /\ result'[1].kind = "ok"
          /\ billableEvents' = billableEvents
          /\ invoiceLinks' = invoiceLinks]_vars


\* ------------------------------------------------------------ fee lookup
\* createEvent reaches its fee calculation with this input and the
\* calculator has no amount for it
FeeMissing(input) ==
  /\ DerivedKey(input) # <<>>
  /\ ~Collides(input)
  /\ input.amount = <<>>
  /\ calculateFee(getPolicyByClientId(input.clientId)[1], input.feeType,
                  input.salary) = <<>>

\* C21: a createEvent that supplies no amount and for which calculateFee
\* returns no amount ends with an error of kind FeeUnavailable and leaves
\* the persisted events as they were.
C21_FeeUnavailable ==
  [][(Idle(1) /\ pc'[1] = "done" /\ result'[1].op = "createEvent")
       => \A input \in Triggers, u \in Users :
            (FeeMissing(input) /\ CreateEventWith(1, input, u))
              => /\ result'[1].kind = "FeeUnavailable"
                 /\ billableEvents' = billableEvents]_vars


\* The call of calculateFee whose result the caller holds: its rule, fee type
\* and base amount
FeeCall == pc[1] = "done" /\ result[1].op = "calculateFee"
CalledRule == clientPolicies[1].feeRules[1]
CalledBase == local[1].input.salary

\* minimumFee applied first, maximumFee second, an unset cap ignored
Clamp(rule, raw) ==
  LET lo == IF rule.hasMin /\ raw < rule.minimumFee THEN rule.minimumFee ELSE raw
  IN  IF rule.hasMax /\ lo > rule.maximumFee THEN rule.maximumFee ELSE lo

\* C22: for a FIXED rule calculateFee returns the rule value clamped,
\* whatever the base amount (also when there is none); for a PERCENTAGE rule
\* with a base amount it returns baseAmount * value / 100, rounded to the
\* minor unit (halves up), clamped; clamped
\* means min(max(raw, minimumFee), maximumFee) with an unset cap ignored.
\* For 15% with minimumFee 100 and maximumFee 2000, base 100 gives 100, base
\* 20000 gives 2000 and base 4000 gives 600.
C22_FixedPercentageClamp ==
  (FeeCall /\ local[1].input.feeType = CalledRule.feeType) =>
     /\ CalledRule.calculationType = "FIXED"
          => result[1].amount = <<Clamp(CalledRule, CalledRule.value)>>
     /\ (CalledRule.calculationType = "PERCENTAGE" /\ CalledBase # <<>>)
          => result[1].amount =
               <<Clamp(CalledRule, (CalledBase[1] * CalledRule.value + 50) \div 100)>>
     /\ (/\ CalledRule.calculationType = "PERCENTAGE" /\ CalledRule.value = 15
         /\ CalledRule.hasMin /\ CalledRule.minimumFee = 100
         /\ CalledRule.hasMax /\ CalledRule.maximumFee = 2000)
          => /\ CalledBase = <<100>> => result[1].amount = <<100>>
             /\ CalledBase = <<20000>> => result[1].amount = <<2000>>
             /\ CalledBase = <<4000>> => result[1].amount = <<600>>

\* 15% of 20000 capped at 2000
C22_Witness ==
  /\ FeeCall
  /\ CalledRule.calculationType = "PERCENTAGE" /\ CalledRule.value = 15
  /\ CalledRule.hasMin /\ CalledRule.minimumFee = 100
  /\ CalledRule.hasMax /\ CalledRule.maximumFee = 2000
  /\ CalledBase = <<20000>>
  /\ result[1].amount = <<2000>>


\* the first tier of the rule whose range [fromAmount, toAmount) holds base,
\* a missing toAmount meaning unbounded; 0 when there is none
HalfOpenTier(rule, base) ==
  FirstIdx({k \in 1..Len(rule.tiers) :
              /\ base >= rule.tiers[k].fromAmount
              /\ (~rule.tiers[k].hasTo \/ base < rule.tiers[k].toAmount)})

\* C23: for a TIERED rule with a base amount, calculateFee prices the base
\* amount by the tier whose half-open range [fromAmount, toAmount) holds it
\* (the tier value if the tier is FIXED, baseAmount * value / 100 if it is
\* PERCENTAGE, then rounded and clamped), so a base amount equal to a tier's
\* toAmount is priced by the tier that starts there; when no tier holds the
\* base amount there is no result.
C23_TierHalfOpen ==
  (/\ FeeCall /\ local[1].input.feeType = CalledRule.feeType
   /\ CalledRule.calculationType = "TIERED" /\ CalledBase # <<>>)
    => LET t == HalfOpenTier(CalledRule, CalledBase[1])
           tier == CalledRule.tiers[t]
       IN  IF t = 0 THEN result[1].amount = <<>>
           ELSE result[1].amount =
                  << Clamp(CalledRule,
                           IF tier.calculationType = "FIXED" THEN tier.value
                           ELSE (CalledBase[1] * tier.value + 50) \div 100) >>


\* ------------------------------------------------------------------ aging
\* the stored link the caller has just asked isOverdue about
AskedLink == invoiceLinks[CHOOSE i \in 1..Len(invoiceLinks) :
                            invoiceLinks[i].id = result[1].id]

\* whole days from dueDate to today, rounded up, floored at 0
DaysPast(dueDate, today) ==
  IF today <= dueDate THEN 0
  ELSE CHOOSE d \in 1..(today - dueDate) :
         (d - 1) * DayTicks < today - dueDate /\ today - dueDate <= d * DayTicks

\* C24: a link is overdue exactly when its balance is above 0 and the clock
\* is past its dueDate, whatever its qbStatus; its days overdue are then
\* the whole days from dueDate to now, rounded up, and 0 when it is not
\* overdue; so a link with balance 0 is never overdue.
C24_OverdueIffBalanceAndPastDue ==
  (pc[1] = "done" /\ result[1].op = "isOverdue") =>
     LET asked == result[1].report[1]
         overdue == AskedLink.balance > 0 /\ asked.today > AskedLink.dueDate
     IN  /\ asked.isOverdue = overdue
         /\ asked.daysOverdue =
              IF overdue THEN DaysPast(AskedLink.dueDate, asked.today) ELSE 0


\* the links that are overdue at `today`: balance above 0, dueDate passed
OverdueAt(today) ==
  {i \in 1..Len(invoiceLinks) :
     invoiceLinks[i].balance > 0 /\ today > invoiceLinks[i].dueDate}

\* the sum of the balances of the links at the positions in idxs
RECURSIVE BalanceOf(_)
BalanceOf(idxs) ==
  IF idxs = {} THEN 0
  ELSE LET i == CHOOSE i \in idxs : TRUE
       IN  invoiceLinks[i].balance + BalanceOf(idxs \ {i})

\* the bucket of d days overdue, by its bounds
BucketOf(d) ==
  CHOOSE b \in AgingBuckets :
     \/ b = "1-30" /\ d <= 30
     \/ b = "31-60" /\ 31 <= d /\ d <= 60
     \/ b = "61-90" /\ 61 <= d /\ d <= 90
     \/ b = "90+" /\ d > 90

\* C25: getOverdueReport lists every overdue link once, with its days
\* overdue d and its bucket (1-30 for d <= 30, 31-60 for 31..60, 61-90 for
\* 61..90, 90+ above 90); a bucket's count and amount are the number and the
\* summed balances of the overdue links in it, so the counts add up to the
\* report count and the amounts to totalOverdue, the summed balances of the
\* overdue links; with no link on file every count and total is 0.
C25_ReportBucketsEveryOverdueLink ==
  (pc[1] = "done" /\ result[1].op = "getOverdueReport") =>
     LET report == result[1].report[1]
         overdue == OverdueAt(report.today)
         In(b) == {i \in overdue :
                     BucketOf(DaysPast(invoiceLinks[i].dueDate, report.today)) = b}
     IN  /\ result[1].kind = "ok"
         /\ report.summary.count = Cardinality(overdue)
         /\ report.summary.totalOverdue = BalanceOf(overdue)
         /\ \A b \in AgingBuckets :
              /\ report.summary.byAging[b].count = Cardinality(In(b))
              /\ report.summary.byAging[b].amount = BalanceOf(In(b))
         /\ Len(report.invoices) = Cardinality(overdue)
         /\ \A i \in overdue :
              \E k \in 1..Len(report.invoices) :
                 /\ report.invoices[k].id = invoiceLinks[i].id
                 /\ report.invoices[k].balance = invoiceLinks[i].balance
                 /\ report.invoices[k].daysOverdue =
                      DaysPast(invoiceLinks[i].dueDate, report.today)
                 /\ report.invoices[k].agingBucket =
                      BucketOf(report.invoices[k].daysOverdue)


\* ------------------------------------------------------------------ policies
SameCode(i, j) ==
  MapChars(clientPolicies[i].clientCode, toUpperCase)
    = MapChars(clientPolicies[j].clientCode, toUpperCase)

\* C26: after any sequence of createPolicy, updatePolicy and
\* deactivatePolicy calls, no two active policies have the same client code,
\* codes compared without regard to letter case.
C26_OneActivePolicyPerCode ==
  \A i, j \in 1..Len(clientPolicies) :
     (/\ i # j /\ clientPolicies[i].isActive /\ clientPolicies[j].isActive)
       => ~SameCode(i, j)


Pinned(e) ==
  <<e.policyVersion, e.policyId, e.amount, e.currency, e.idempotencyKey>>

\* C27: a policy's version never decreases, and an updatePolicy that
\* supplies feeRules or triggerRule raises it by exactly 1; an event is filed
\* with the id and version of the client's active policy; and no later step,
\* policy update or status transition, changes an event's policyVersion,
\* policyId, amount, currency or idempotencyKey.
C27_VersionPinned ==
  [][/\ Len(clientPolicies') >= Len(clientPolicies)
     /\ \A i \in 1..Len(clientPolicies) :
          clientPolicies'[i].version >= clientPolicies[i].version
     /\ (pc[1] = "pol_write" /\ local[1].op = "updatePolicy"
           /\ (\/ local[1].updates[1].feeRules # <<>>
               \/ local[1].updates[1].triggerRule # <<>>))
          => \E i \in 1..Len(clientPolicies) :
               /\ clientPolicies[i].id = local[1].id
               /\ clientPolicies'[i].version = clientPolicies[i].version + 1
     /\ Len(billableEvents') >= Len(billableEvents)
     /\ \A i \in 1..Len(billableEvents) :
          Pinned(billableEvents'[i]) = Pinned(billableEvents[i])
     /\ \A i \in (Len(billableEvents) + 1)..Len(billableEvents') :
          LET policy == getPolicyByClientId(billableEvents'[i].clientId)
          IN  /\ policy # <<>>
              /\ billableEvents'[i].policyId = policy[1].id
              /\ billableEvents'[i].policyVersion = policy[1].version]_vars

\* an approved event of version 1 whose policy has moved on to version 2
C27_Witness ==
  \E i \in 1..Len(billableEvents), k \in 1..Len(clientPolicies) :
     /\ billableEvents[i].status = "APPROVED"
     /\ billableEvents[i].policyId = clientPolicies[k].id
     /\ billableEvents[i].policyVersion = 1
     /\ clientPolicies[k].version = 2
     /\ clientPolicies[k].feeRules[1].value = 2000


\* ------------------------------------------------------------------ key codec
KeyCall == local[1].op = "generateKey" /\ pc[1] = "done"
KeyInput == local[1].input
Sanitized(controlNumber) ==
  MapChars(SelectChars(controlNumber, ControlNumberChars), toUpperCase)
\* a trigger date written YYYY-MM-DD, as characters
DateChars ==
  [d \in {"2023-12-15"} |-> <<"2", "0", "2", "3", "-", "1", "2", "-", "1", "5">>]
KeyInputValid ==
  /\ KeyInput.clientCode # <<>>
  /\ Sanitized(KeyInput.controlNumber) # <<>>
  /\ KeyInput.feeType \in FeeTypes
  /\ DateParses(KeyInput.triggerDate)

\* C28: parsing the key generated from a client code, a control number, a
\* date and a fee type gives a record, not null, holding the client code in
\* upper case, the control number sanitized and in upper case, the date as
\* YYYY-MM-DD and the fee type, also when the client code or the control
\* number contains a hyphen.
C28_ParseInvertsGenerate ==
  (KeyCall /\ KeyInputValid /\ result[1].op = "parseKey")
    => /\ result[1].kind = "ok"
       /\ result[1].report =
            << [clientCode |-> MapChars(KeyInput.clientCode, toUpperCase),
                controlNumber |-> Sanitized(KeyInput.controlNumber),
                triggerDate |-> DateChars[KeyInput.triggerDate],
                feeType |-> FeeTypeStrings[KeyInput.feeType]] >>


Upper(str) == MapChars(str, toUpperCase)
KeyReturned == KeyCall /\ result[1].op = "generateKey" /\ result[1].kind = "ok"

\* C29: the key generated has every component in upper case, and the same
\* key comes out for any other client code, control number and fee type
\* that differ from the ones given in letter case only.
C29_KeyIgnoresCase ==
  KeyReturned
    => /\ result[1].key[1] = Upper(result[1].key[1])
       /\ \A clientCode \in KeyClientCodes, controlNumber \in KeyControlNumbers,
             feeType \in DOMAIN FeeTypeStrings :
            (/\ Upper(clientCode) = Upper(KeyInput.clientCode)
             /\ Upper(controlNumber) = Upper(KeyInput.controlNumber)
             /\ Upper(FeeTypeStrings[feeType]) = Upper(FeeTypeStrings[KeyInput.feeType]))
              => generateIdempotencyKey(clientCode, controlNumber,
                                        KeyInput.triggerDate, feeType)
                   = result[1].key[1]

\* C30: generateIdempotencyKey called with an empty client code, a control
\* number that is empty once sanitized, an empty fee type or a date that
\* does not parse fails with InvalidInput and returns no key.
C30_EmptyComponentRejected ==
  (/\ KeyCall /\ result[1].op = "generateKey"
   /\ \/ KeyInput.clientCode = <<>>
      \/ Sanitized(KeyInput.controlNumber) = <<>>
      \/ FeeTypeStrings[KeyInput.feeType] = <<>>
      \/ ~DateParses(KeyInput.triggerDate))
    => result[1].kind = "InvalidInput" /\ result[1].key = <<>>


C32_DistinctCodes ==
  /\ [](\A k1, k2 \in {"ValidationError", "NotFoundError", "DuplicateError",
                       "IntegrationError"} :
          k1 # k2 => errorCode(k1) # errorCode(k2))
  /\ [][\A id \in EventIds :
          (/\ Begins("approveEvent", id) /\ Fails
           /\ HasEvent(id) /\ ~ApproveAllowed(StatusOf(id)))
            => errorCode(result'[1].kind) # errorCode("ValidationError")]_vars
  /\ [][\A input \in Triggers, u \in Users :
          (FeeMissing(input) /\ CreateEventWith(1, input, u))
            => errorCode(result'[1].kind) # errorCode("ValidationError")]_vars


\* ------------------------------------------------------------------ statuses
StoredEventStatuses == {"PENDING", "APPROVED", "HOLD", "INVOICED", "PAID"}

\* C33: no billable event has the stored status OVERDUE; the statuses stored
\* on an event, as its status or in its statusHistory, are PENDING,
\* APPROVED, HOLD, INVOICED and PAID only.
C33_EventNeverOverdue ==
  \A i \in 1..Len(billableEvents) :
     /\ billableEvents[i].status \in StoredEventStatuses
     /\ \A k \in 1..Len(billableEvents[i].statusHistory) :
          billableEvents[i].statusHistory[k].status \in StoredEventStatuses

\* an invoiced event whose link carries an open balance after a payment
C33_Witness ==
  \E i \in 1..Len(billableEvents), k \in 1..Len(invoiceLinks) :
     /\ billableEvents[i].status = "INVOICED"
     /\ invoiceLinks[k].billableEventId = billableEvents[i].id
     /\ invoiceLinks[k].balance > 0
     /\ invoiceLinks[k].totalPaid > 0


\* ------------------------------------------------------------------ audit
AuditedOps ==
  {"createEvent", "approveEvent", "holdEvent", "createInvoice",
   "recordPaymentFromQb", "updateStatusFromQb", "createPolicy", "updatePolicy"}

\* caller 1's call, made on its own and not from the bulk loop, returns in
\* this step
Returns ==
  /\ pc[1] \notin {"idle", "done"} /\ ~local[1].bulk
  /\ pc'[1] = "done" /\ result'[1].kind = "ok"

\* C34: each of the state-changing operations, when it succeeds, has
\* appended an audit log entry that names the actor and the entity, and the
\* audit log only grows: the entries on file stay as they are.
C34_EveryChangeAudited ==
  /\ [][(Returns /\ result'[1].op \in AuditedOps)
          => /\ Len(auditLogs') = Len(auditLogs) + 1
             /\ auditLogs'[Len(auditLogs')].entityId = result'[1].id
             /\ auditLogs'[Len(auditLogs')].userId = local[1].userId
             /\ local[1].userId # ""]_vars
  /\ [][/\ Len(auditLogs') >= Len(auditLogs)
        /\ SubSeq(auditLogs', 1, Len(auditLogs)) = auditLogs]_vars


\* ------------------------------------------------------------------ invoices
\* C35: with createInvoice calls for one event interleaved at their awaits,
\* the event has at most one invoice link on file.
C35_OneLinkUnderRace ==
  \A id \in EventIds : Cardinality(LinksOf(id)) <= 1

LinkedStatuses == {"INVOICED", "PAID"}

\* C36: every invoice link on file belongs to an event whose status is
\* INVOICED or PAID, also when createInvoice interleaves with holdEvent or
\* fails after it saved the link.  Stated for the states in which no call is
\* under way: inside createInvoice the link is saved one step before the
\* event is marked.
C36_LinkImpliesInvoiced ==
  (\A p \in Procs : Idle(p))
    => \A k \in 1..Len(invoiceLinks) :
         /\ HasEvent(invoiceLinks[k].billableEventId)
         /\ StatusOf(invoiceLinks[k].billableEventId) \in LinkedStatuses


\* ------------------------------------------------------------------ lifecycle
\* C37: an event's status never moves backwards.  An INVOICED event stays
\* INVOICED or becomes PAID, a PAID event stays PAID, no event on file
\* returns to PENDING, and approveEvent, holdEvent and createInvoice (with
\* its markAsInvoiced) on an INVOICED or PAID event fail.
C37_StatusNeverBackwards ==
  [][/\ Len(billableEvents') >= Len(billableEvents)
     /\ \A i \in 1..Len(billableEvents) :
          /\ billableEvents'[i].id = billableEvents[i].id
          /\ billableEvents[i].status = "INVOICED"
               => billableEvents'[i].status \in {"INVOICED", "PAID"}
          /\ billableEvents[i].status = "PAID"
               => billableEvents'[i].status = "PAID"
          /\ billableEvents[i].status # "PENDING"
               => billableEvents'[i].status # "PENDING"
     /\ \A id \in EventIds, op \in {"approveEvent", "holdEvent", "createInvoice"} :
          (/\ Begins(op, id) /\ HasEvent(id)
           /\ StatusOf(id) \in {"INVOICED", "PAID"})
            => Fails /\ billableEvents' = billableEvents]_vars

\* a holdEvent refused for an event that is PAID
C37_Witness ==
  /\ pc[1] = "done"
  /\ result[1].op = "holdEvent"
  /\ result[1].kind = "ValidationError"
  /\ HasEvent(result[1].id)
  /\ StatusOf(result[1].id) = "PAID"


\* what a key is meant to stand for: the client code in upper case, the
\* control number sanitized and in upper case, the trigger day, the fee type
Normalized(clientCode, controlNumber, triggerDate, feeType) ==
  <<Upper(clientCode), Sanitized(controlNumber), ValidDates[triggerDate],
    FeeTypeStrings[feeType]>>

\* C38: two calls of generateIdempotencyKey whose normalized inputs differ
\* in the client code, the control number, the trigger day or the fee type
\* never return the same key.
C38_KeyInjective ==
  KeyReturned
    => \A clientCode \in KeyClientCodes, controlNumber \in KeyControlNumbers,
          triggerDate \in DOMAIN ValidDates, feeType \in DOMAIN FeeTypeStrings :
         Normalized(clientCode, controlNumber, triggerDate, feeType)
             # Normalized(KeyInput.clientCode, KeyInput.controlNumber,
                          KeyInput.triggerDate, KeyInput.feeType)
           => generateIdempotencyKey(clientCode, controlNumber, triggerDate, feeType)
                # result[1].key[1]


\* ------------------------------------------------------------------ payments
RECURSIVE SumOf(_)
SumOf(amounts) ==
  IF amounts = <<>> THEN 0 ELSE Head(amounts) + SumOf(Tail(amounts))

\* C39: with payments and status syncs applied one at a time, a link's
\* totalPaid is the sum of its payments, the payments list grows by
\* appending only, and updateStatusFromQb changes neither totalPaid, balance
\* nor payments.
C39_TotalPaidIsSumOfPayments ==
  /\ [](\A i \in 1..Len(invoiceLinks) :
          invoiceLinks[i].totalPaid = SumOf(invoiceLinks[i].payments))
  /\ [][\A i \in 1..Len(invoiceLinks) :
          /\ Len(invoiceLinks'[i].payments) >= Len(invoiceLinks[i].payments)
          /\ SubSeq(invoiceLinks'[i].payments, 1, Len(invoiceLinks[i].payments))
               = invoiceLinks[i].payments
          /\ pc[1] = "sync_write"
               => /\ invoiceLinks'[i].totalPaid = invoiceLinks[i].totalPaid
                  /\ invoiceLinks'[i].balance = invoiceLinks[i].balance
                  /\ invoiceLinks'[i].payments = invoiceLinks[i].payments]_vars

\* a link whose status a sync set to PAID and that took two payments after
C39_Witness ==
  \E i \in 1..Len(invoiceLinks) :
     /\ invoiceLinks[i].payments = <<400, 600>>
     /\ invoiceLinks[i].totalPaid = 1000
     /\ LinkStatuses(invoiceLinks[i]) = <<"PENDING", "PAID", "PARTIAL", "PAID">>

============================================================================
